---------------------------- MODULE Spec2Model ----------------------------
(***************************************************************************)
(* Offline indexing pipeline of the knowledge base: IndexBuilder           *)
(* (pipeline/index.py), IncrementalIndexer (pipeline/incremental.py),      *)
(* DocStore (storage/docstore.py), VectorStore (storage/vectorstore.py),   *)
(* split_document (pipeline/chunk.py) and compute_signature                *)
(* (pipeline/index_signature.py).                                          *)
(*                                                                         *)
(* The two PostgreSQL stores are the persistent state.  The vector store's *)
(* pool is opened with autocommit, so every INSERT and DELETE of           *)
(* add_chunks / delete_chunks is durable on its own; every DocStore method *)
(* is one statement in one transaction.  Each action below is one such     *)
(* statement together with the local computation that follows it.         *)
(***************************************************************************)
EXTENDS Integers, Sequences, FiniteSets, TLC

(***************************************************************************)
(* Bounds of the model.                                                    *)
(***************************************************************************)
MaxInputLen == 2        \* records in one cleaner output
MaxCrashes == 1         \* process crashes in one behaviour
MaxEmbedFailures == 1   \* embedding-provider failures in one behaviour
MaxLookups == 2         \* distinct doc_ids among the chunks of one retrieval
MaxWords == 2           \* words in one generated answer
MaxDays == 2            \* UTC days a behaviour spans
MaxTopK == 2            \* largest top_k of a search
MaxResults == 2         \* longest list given to the re-ranker
global_daily_limit == 3 \* DailyRateLimitConfig.global_daily_limit of the model
per_ip_daily_limit == 2 \* DailyRateLimitConfig.per_ip_daily_limit of the model

(***************************************************************************)
(* Values.  A hex digest is modelled by the tuple of the hashed inputs     *)
(* (SHA-256 taken to be collision free).                                   *)
(***************************************************************************)
NoValue == <<>>                         \* Python None / absent row

DocIds == {"a", "b"}

\* Contents as the sequence of sections MarkdownHeaderTextSplitter yields:
\* heading metadata and the section text (a sequence of characters).
ContentEmpty == <<>>
ContentSmall == << [metadata |-> <<"Intro", "">>, page_content |-> <<1, 2>>] >>
ContentLarge == << [metadata |-> <<"Guide", "Setup">>, page_content |-> <<1, 2, 3, 4, 5, 6>>] >>
Contents == {ContentEmpty, ContentSmall, ContentLarge}

\* checksum of the cleaner record: hex digest over the content
Checksum(content) == <<"sha256", content>>

\* One line of the cleaner output (a well-formed record).
Record(id, content) ==
    [id |-> id, path |-> <<id, ".md">>, title |-> id,
     checksum |-> Checksum(content), content |-> content]

\* Document "a" is edited from run to run, document "b" keeps its content.
Records == {Record("a", c) : c \in Contents} \cup {Record("b", ContentSmall)}

\* Document.from_dict: version defaults to "latest"
FromDict(doc_dict) ==
    [id |-> doc_dict.id, path |-> doc_dict.path, title |-> doc_dict.title,
     checksum |-> doc_dict.checksum, version |-> "latest",
     content |-> doc_dict.content]

RECURSIVE UniqueIds(_)
UniqueIds(s) ==
    IF Len(s) <= 1 THEN TRUE
    ELSE /\ \A k \in 2..Len(s) : s[k].id # s[1].id
         /\ UniqueIds(Tail(s))

\* Cleaner outputs: `id` is unique per corpus.
Inputs ==
    {s \in UNION {[1..n -> Records] : n \in 0..MaxInputLen} : UniqueIds(s)}

(***************************************************************************)
(* Configurations (pipeline/config.py).                                    *)
(***************************************************************************)
MkConfig(model, table, msc, cs, co, bs) ==
    [embedding_model |-> model, vector_store_table_name |-> table,
     chunking |-> [max_section_chars |-> msc, chunk_size |-> cs, chunk_overlap |-> co],
     vector_store_batch_size |-> bs]

BatchSize == 2          \* vector_store.batch_size of every configuration

ConfigA == MkConfig("m1", "", 4, 2, 0, BatchSize)
ConfigB == MkConfig("m1", "", 4, 3, 0, BatchSize)   \* chunk_size changed
ConfigC == MkConfig("m2", "", 4, 2, 0, BatchSize)   \* embedding model changed
Configs == {ConfigA, ConfigB, ConfigC}

\* VectorStore.initialize: the dimension is the length of a probe embedding.
ProbeDim(model) == IF model = "m1" THEN 3 ELSE 4

\* model_safe = embedding_model.replace("/", "_").replace("-", "_")
model_safe(embedding_model) ==
    IF embedding_model \in {"m/3", "m-3"} THEN "m_3" ELSE embedding_model

\* _default_table_name / VectorStore.initialize: f"kb_chunks_{model_safe}"
DefaultTableName(embedding_model) ==
    LET safe == model_safe(embedding_model)
    IN IF safe = "m1" THEN "kb_chunks_m1"
       ELSE IF safe = "m2" THEN "kb_chunks_m2"
       ELSE "kb_chunks_m_3"

\* VectorStore.initialize: TABLE_NAME
TableName(config) ==
    IF config.vector_store_table_name # ""
    THEN config.vector_store_table_name
    ELSE DefaultTableName(config.embedding_model)

\* variant: chunk_size left out of the payload
compute_signature_without_chunk_size(config, embedding_dim) ==
    << "sha256",
       config.chunking.chunk_overlap,
       config.chunking.max_section_chars,
       embedding_dim, config.embedding_model,
       IF config.vector_store_table_name # ""
       THEN config.vector_store_table_name
       ELSE DefaultTableName(config.embedding_model) >>

\* compute_signature: digest of the sorted-key JSON payload
compute_signature(config, embedding_dim) ==
    << "sha256",
       config.chunking.chunk_overlap, config.chunking.chunk_size,
       config.chunking.max_section_chars,
       embedding_dim, config.embedding_model,
       IF config.vector_store_table_name # ""
       THEN config.vector_store_table_name
       ELSE DefaultTableName(config.embedding_model) >>

(***************************************************************************)
(* Chunking (pipeline/chunk.py).                                           *)
(***************************************************************************)
RECURSIVE SeqFilter(_, _)
SeqFilter(s, keep) ==
    IF s = <<>> THEN <<>>
    ELSE (IF Head(s) \in keep THEN <<Head(s)>> ELSE <<>>) \o SeqFilter(Tail(s), keep)

\* _extract_heading_path: the non-empty heading levels, root to leaf
ExtractHeadingPath(metadata) ==
    SeqFilter(metadata, {metadata[k] : k \in DOMAIN metadata} \ {""})

\* RecursiveCharacterTextSplitter on a text without separators: pieces of
\* chunk_size characters, each starting chunk_size - chunk_overlap after the
\* previous one.
RECURSIVE RecursiveSplit(_, _, _)
RecursiveSplit(text, chunk_size, chunk_overlap) ==
    IF Len(text) <= chunk_size THEN <<text>>
    ELSE <<SubSeq(text, 1, chunk_size)>>
         \o RecursiveSplit(SubSeq(text, chunk_size - chunk_overlap + 1, Len(text)),
                           chunk_size, chunk_overlap)

\* variant: chunk indices counted from one
CreateChunkOneBased(document, content, heading_path, chunk_index) ==
    [chunk_id |-> <<"sha256", document.id, document.version, heading_path,
                    chunk_index + 1, <<"sha256", content>> >>,
     doc_id |-> document.id,
     content |-> content,
     heading_path |-> heading_path,
     chunk_index |-> chunk_index + 1]

\* _create_chunk: chunk_id = H(doc_id:version:heading_path:chunk_index:H(content))
CreateChunk(document, content, heading_path, chunk_index) ==
    [chunk_id |-> <<"sha256", document.id, document.version, heading_path,
                    chunk_index, <<"sha256", content>> >>,
     doc_id |-> document.id,
     content |-> content,
     heading_path |-> heading_path,
     chunk_index |-> chunk_index]

\* the pieces of one section
SectionPieces(section, chunking) ==
    IF Len(section.page_content) > chunking.max_section_chars
    THEN RecursiveSplit(section.page_content, chunking.chunk_size, chunking.chunk_overlap)
    ELSE <<section.page_content>>

RECURSIVE SplitSections(_, _, _, _)
SplitSections(document, sections, chunking, chunk_index) ==
    IF sections = <<>> THEN <<>>
    ELSE LET hp == ExtractHeadingPath(Head(sections).metadata)
             pieces == SectionPieces(Head(sections), chunking)
         IN [k \in 1..Len(pieces) |->
                CreateChunk(document, pieces[k], hp, chunk_index + k - 1)]
            \o SplitSections(document, Tail(sections), chunking,
                             chunk_index + Len(pieces))

\* split_document (called through the chunker of IndexBuilder)
split_document(document, chunking) ==
    IF document.content = <<>> THEN <<>>
    ELSE SplitSections(document, document.content, chunking, 0)


(***************************************************************************)
(* State.                                                                  *)
(***************************************************************************)
Procs == {"p1", "p2"}   \* pipeline invocations that may run side by side
Requests == {"r1", "r2"}    \* /stream requests served side by side
Https == {"h1", "h2"}       \* HTTP requests inside the middleware side by side
Ips == {"ip1", "ip2"}       \* client IPs
Days == 1..MaxDays          \* UTC day keys
NoDay == 0                  \* _day_key before the first hit (None)
NoRequest == [pc |-> "idle", method |-> "", path |-> "", ip |-> "",
              decision |-> "", handled |-> FALSE, status |-> 0]

VARIABLES
    kb_documents,       \* doc rows: doc_id -> [path, title, version, checksum, chunk_ids]
    kb_index_meta,      \* key -> value, with the reserved key "index_signature"
    tables,             \* chunk tables: table name -> [dim, rows]
    pc,                 \* per process: position in the code
    config,             \* per process: IndexBuilder._config
    force_rebuild,      \* per process: argument of build_from_jsonl
    force_rebuild_override, \* per process: IndexBuilder._force_rebuild_override
    input,              \* per process: the lines of the JSONL file
    stats,              \* per process: the statistics dict (total = lines read)
    old_chunk_ids,      \* per process: local of index_document / build_from_jsonl
    idx,                \* per process: loop index inside delete_chunks / add_chunks
    target,             \* per process: argument of delete_document
    hist,               \* per process: history of the run, for stating the claims
    configs,            \* the configurations the operator switches between
    crashes, embed_failures,  \* counters that bound a behaviour
    base,               \* the stores as two indexers started side by side found them
    file,               \* per process: the lines of the file _load_jsonl reads
    line_no,            \* per process: lines of the file consumed so far
    stream_pc,          \* per /stream request: where event_generator is suspended
    events,             \* per /stream request: the event types yielded so far
    lookups,            \* per /stream request: doc_ids still to look up
    words,              \* per /stream request: words of the answer still to send
    outcome,            \* per /stream request: "", "failed" or "disconnected"
    day_key,            \* _InMemoryDailyRateLimiter._day_key
    global_count,       \* _InMemoryDailyRateLimiter._global_count
    ip_counts,          \* _InMemoryDailyRateLimiter._ip_counts
    lock,               \* _InMemoryDailyRateLimiter._lock: its holder, or ""
    today,              \* the UTC day of the clock
    http,               \* per HTTP request: position in dispatch, request, response
    hits,               \* history: hits allowed so far, per day and client IP
    corpus,             \* chunk rows as one query sees them: similarity, text matches
    search_args,        \* the retriever's construction and the arguments of search
    vector_results,     \* what VectorStore.search returned to this search
    raw_results,        \* KBRetriever.search: raw_results after step 1
    retrieved,          \* KBRetriever.search: the list returned
    search_pc,          \* "off", "called" or "returned"
    call,               \* a function applied on its own: its arguments
    returned,           \* what that function returned
    call_pc             \* "off", "called" or "returned"

store == <<kb_documents, kb_index_meta, tables>>
locals == <<pc, config, force_rebuild, force_rebuild_override, input, stats,
            old_chunk_ids, idx, target, hist>>
counters == <<configs, crashes, embed_failures>>
sse == <<stream_pc, events, lookups, words, outcome>>
limiter == <<day_key, global_count, ip_counts, lock, today, http, hits>>
retrieval == <<corpus, search_args, vector_results, raw_results, retrieved,
               search_pc>>
applied == <<call, returned, call_pc>>
queries == <<retrieval, applied>>
indexing == <<store, locals, counters, base, file, line_no, limiter, queries>>
aux == <<base, file, line_no, sse, limiter, queries>>
vars == <<store, locals, counters, aux>>

EmptyStats ==
    [total |-> 0, indexed |-> 0, skipped |-> 0, chunks_added |-> 0,
     chunks_deleted |-> 0, errors |-> <<>>]

\* hist.repeat: this run has the input and configuration of the run before
\*   it, which completed without error; hist.prev_force: that run's flag
\* hist.writes: statements issued so far against doc rows and chunk rows
\* hist.crash_doc: the document the crashed previous run was indexing,
\*   between its delete_chunks and its upsert_document ("" if none)
\* hist.redone: the checksum test of index_document let crash_doc through
\* hist.old_sig: the signature found stored by initialize
EmptyHist ==
    [repeat |-> FALSE, prev_force |-> FALSE, writes |-> 0, crash_doc |-> "",
     redone |-> FALSE, old_sig |-> NoValue]

EmptyFn == [x \in {} |-> NoValue]

(***************************************************************************)
(* DocStore (storage/docstore.py).                                         *)
(***************************************************************************)
get_checksum(docs, doc_id) ==
    IF doc_id \in DOMAIN docs THEN docs[doc_id].checksum ELSE NoValue

get_chunk_ids(docs, doc_id) ==
    IF doc_id \in DOMAIN docs THEN docs[doc_id].chunk_ids ELSE <<>>

upsert_document(docs, doc_id, path, title, checksum, chunk_ids, version) ==
    [d \in DOMAIN docs \cup {doc_id} |->
        IF d = doc_id
        THEN [path |-> path, title |-> title, version |-> version,
              checksum |-> checksum, chunk_ids |-> chunk_ids]
        ELSE docs[d]]

docstore_delete_document(docs, doc_id) ==
    [d \in DOMAIN docs \ {doc_id} |-> docs[d]]

\* variant: the TRUNCATE is lost
clear_documents_kept(docs) == docs

clear_documents(docs) == EmptyFn

get_index_signature(meta) ==
    IF "index_signature" \in DOMAIN meta THEN meta["index_signature"] ELSE NoValue

\* variant: ON CONFLICT (key) DO NOTHING
set_index_signature_once(meta, signature) ==
    [k \in DOMAIN meta \cup {"index_signature"} |->
        IF k \in DOMAIN meta THEN meta[k] ELSE signature]

set_index_signature(meta, signature) ==
    [k \in DOMAIN meta \cup {"index_signature"} |->
        IF k = "index_signature" THEN signature ELSE meta[k]]

(***************************************************************************)
(* VectorStore (storage/vectorstore.py).                                   *)
(***************************************************************************)
\* GeminiEmbeddings.embed_documents, one text
Embedding(embedding_model, text) == <<embedding_model, text>>

\* _create_table: an existing table of another dimension is dropped, then
\* CREATE TABLE IF NOT EXISTS
CreateTable(tbls, name, dim) ==
    IF name \in DOMAIN tbls /\ tbls[name].dim = dim
    THEN tbls
    ELSE [t \in DOMAIN tbls \cup {name} |->
            IF t = name THEN [dim |-> dim, rows |-> {}] ELSE tbls[t]]

\* variant: the DROP TABLE is lost
reset_table_kept(tbls, name, dim) == CreateTable(tbls, name, dim)

\* reset_table: DROP TABLE IF EXISTS, then _create_table
reset_table(tbls, name, dim) ==
    [t \in DOMAIN tbls \cup {name} |->
        IF t = name THEN [dim |-> dim, rows |-> {}] ELSE tbls[t]]

\* variant: ON CONFLICT (chunk_id) DO NOTHING
InsertChunkDoNothing(rows, chunk, embedding) ==
    IF \E r \in rows : r.chunk_id = chunk.chunk_id
    THEN rows
    ELSE rows \cup {[chunk_id |-> chunk.chunk_id, doc_id |-> chunk.doc_id,
                     content |-> chunk.content, heading_path |-> chunk.heading_path,
                     chunk_index |-> chunk.chunk_index, embedding |-> embedding]}

\* one INSERT ... ON CONFLICT (chunk_id) DO UPDATE of add_chunks
InsertChunk(rows, chunk, embedding) ==
    IF \E r \in rows : r.chunk_id = chunk.chunk_id
    THEN {IF r.chunk_id = chunk.chunk_id
          THEN [r EXCEPT !.content = chunk.content, !.embedding = embedding,
                         !.heading_path = chunk.heading_path,
                         !.chunk_index = chunk.chunk_index]
          ELSE r : r \in rows}
    ELSE rows \cup {[chunk_id |-> chunk.chunk_id, doc_id |-> chunk.doc_id,
                     content |-> chunk.content, heading_path |-> chunk.heading_path,
                     chunk_index |-> chunk.chunk_index, embedding |-> embedding]}

\* variant: the WHERE clause with the comparison inverted
DeleteChunkOthers(rows, chunk_id) == {r \in rows : r.chunk_id = chunk_id}

\* variant: the DELETE without its WHERE clause
DeleteChunkAll(rows, chunk_id) == {}

\* one DELETE ... WHERE chunk_id = %s of delete_chunks
DeleteChunk(rows, chunk_id) == {r \in rows : r.chunk_id # chunk_id}

WithRows(tbls, name, rows) == [tbls EXCEPT ![name].rows = rows]


(***************************************************************************)
(* Locals of a run.                                                        *)
(***************************************************************************)
TABLE_NAME(p) == TableName(config[p])
EMBEDDING_DIM(p) == ProbeDim(config[p].embedding_model)

\* build_from_jsonl: the record of the current iteration
Document(p) == FromDict(input[p][stats[p].total])

\* build_from_jsonl: chunks = self._chunker.split(document)
Chunks(p) == split_document(Document(p), config[p].chunking)

ChunkIds(chunks) == [k \in 1..Len(chunks) |-> chunks[k].chunk_id]

\* build_from_jsonl: effective_force_rebuild
EffectiveForceRebuild(p) == force_rebuild[p] \/ force_rebuild_override[p]

\* variant: the stored checksum compared with a hash that also covers the id
IsUnchangedWithId(existing_checksum, document) ==
    existing_checksum = <<"sha256", <<document.id>>, document.content>>

\* index_document: the test that returns "skipped"
IsUnchanged(existing_checksum, document) == existing_checksum = document.checksum

Set(f, p, v) == [f EXCEPT ![p] = v]
Wrote(p) == [hist EXCEPT ![p].writes = @ + 1]

Stopped == {"idle", "done", "crashed", "off"}

(***************************************************************************)
(* OfflineKBPipeline.build_index: a new invocation.                        *)
(***************************************************************************)
BuildIndex(p) ==
    /\ pc[p] \in {"idle", "done", "crashed"}
    /\ \E cfg \in configs, inp \in Inputs, fr \in BOOLEAN :
        /\ config' = Set(config, p, cfg)
        /\ input' = Set(input, p, inp)
        /\ force_rebuild' = Set(force_rebuild, p, fr)
        /\ hist' = Set(hist, p,
              [repeat |-> /\ pc[p] = "done"
                          /\ target[p] = ""
                          /\ stats[p].errors = <<>>
                          /\ inp = input[p]
                          /\ cfg = config[p],
               prev_force |-> force_rebuild[p],
               writes |-> 0,
               crash_doc |-> IF pc[p] = "crashed" THEN hist[p].crash_doc ELSE "",
               redone |-> FALSE,
               old_sig |-> NoValue])
    /\ force_rebuild_override' = Set(force_rebuild_override, p, FALSE)
    /\ stats' = Set(stats, p, EmptyStats)
    /\ old_chunk_ids' = Set(old_chunk_ids, p, <<>>)
    /\ idx' = Set(idx, p, 0)
    /\ target' = Set(target, p, "")
    /\ pc' = Set(pc, p, "initialize")
    /\ UNCHANGED <<store, counters, aux>>

(***************************************************************************)
(* IndexBuilder.initialize.                                                *)
(***************************************************************************)
\* self._docstore.initialize(); self._vectorstore.initialize()
Initialize(p) ==
    /\ pc[p] = "initialize"
    /\ tables' = CreateTable(tables, TABLE_NAME(p), EMBEDDING_DIM(p))
    /\ pc' = Set(pc, p, "check_signature")
    /\ UNCHANGED <<kb_documents, kb_index_meta, config, force_rebuild,
                   force_rebuild_override, input, stats, old_chunk_ids, idx,
                   target, hist, counters, aux>>

\* initialize: `if stored_signature and stored_signature != signature`
SignatureChanged(stored_signature, signature) ==
    stored_signature # NoValue /\ stored_signature # signature

CheckSignature(p) ==
    /\ pc[p] = "check_signature"
    /\ LET signature == compute_signature(config[p], EMBEDDING_DIM(p))
           stored_signature == get_index_signature(kb_index_meta)
       IN /\ pc' = Set(pc, p, IF SignatureChanged(stored_signature, signature)
                              THEN "reset_table" ELSE "set_index_signature")
          /\ hist' = [hist EXCEPT ![p].old_sig = stored_signature]
    /\ UNCHANGED <<store, config, force_rebuild, force_rebuild_override, input,
                   stats, old_chunk_ids, idx, target, counters, aux>>

ResetTable(p) ==
    /\ pc[p] = "reset_table"
    /\ tables' = reset_table(tables, TABLE_NAME(p), EMBEDDING_DIM(p))
    /\ pc' = Set(pc, p, "clear_documents")
    /\ UNCHANGED <<kb_documents, kb_index_meta, config, force_rebuild,
                   force_rebuild_override, input, stats, old_chunk_ids, idx,
                   target, hist, counters, aux>>

ClearDocuments(p) ==
    /\ pc[p] = "clear_documents"
    /\ kb_documents' = clear_documents(kb_documents)
    /\ force_rebuild_override' = Set(force_rebuild_override, p, TRUE)
    /\ pc' = Set(pc, p, "set_index_signature")
    /\ UNCHANGED <<kb_index_meta, tables, config, force_rebuild, input, stats,
                   old_chunk_ids, idx, target, hist, counters, aux>>

SetIndexSignature(p) ==
    /\ pc[p] = "set_index_signature"
    /\ kb_index_meta' = set_index_signature(
            kb_index_meta, compute_signature(config[p], EMBEDDING_DIM(p)))
    /\ pc' = Set(pc, p, "next_record")
    /\ UNCHANGED <<kb_documents, tables, config, force_rebuild,
                   force_rebuild_override, input, stats, old_chunk_ids, idx,
                   target, hist, counters, aux>>

(***************************************************************************)
(* IndexBuilder.build_from_jsonl.                                          *)
(***************************************************************************)
\* The head of the loop: the next line, stats["total"] += 1,
\* Document.from_dict and, under force rebuild, the read of the old chunk ids.
NextRecord(p) ==
    /\ pc[p] = "next_record"
    /\ IF stats[p].total = Len(input[p])
       THEN /\ pc' = Set(pc, p, "done")
            /\ UNCHANGED <<stats, old_chunk_ids, idx>>
       ELSE LET document == FromDict(input[p][stats[p].total + 1])
                old == IF EffectiveForceRebuild(p)
                       THEN get_chunk_ids(kb_documents, document.id)
                       ELSE <<>>
            IN /\ stats' = [stats EXCEPT ![p].total = @ + 1]
               /\ old_chunk_ids' = Set(old_chunk_ids, p, old)
               /\ idx' = Set(idx, p, 1)
               /\ pc' = Set(pc, p, IF old # <<>> THEN "force_delete_chunks"
                                   ELSE "get_checksum")
    /\ UNCHANGED <<store, config, force_rebuild, force_rebuild_override, input,
                   target, hist, counters, aux>>

\* build_from_jsonl, force rebuild: one DELETE of delete_chunks(old_chunk_ids)
ForceDeleteChunk(p) ==
    /\ pc[p] = "force_delete_chunks"
    /\ tables' = WithRows(tables, TABLE_NAME(p),
            DeleteChunk(tables[TABLE_NAME(p)].rows, old_chunk_ids[p][idx[p]]))
    /\ hist' = Wrote(p)
    /\ IF idx[p] = Len(old_chunk_ids[p])
       THEN /\ pc' = Set(pc, p, "get_checksum")
            /\ UNCHANGED idx
       ELSE /\ idx' = Set(idx, p, idx[p] + 1)
            /\ UNCHANGED pc
    /\ UNCHANGED <<kb_documents, kb_index_meta, config, force_rebuild,
                   force_rebuild_override, input, stats, old_chunk_ids, target,
                   counters, aux>>

(***************************************************************************)
(* IncrementalIndexer.index_document.                                      *)
(***************************************************************************)
GetChecksum(p) ==
    /\ pc[p] = "get_checksum"
    /\ LET existing_checksum == get_checksum(kb_documents, Document(p).id)
       IN IF IsUnchanged(existing_checksum, Document(p))
          THEN /\ stats' = [stats EXCEPT ![p].skipped = @ + 1]
               /\ pc' = Set(pc, p, "next_record")
               /\ UNCHANGED hist
          ELSE /\ pc' = Set(pc, p, "get_chunk_ids")
               /\ hist' = [hist EXCEPT ![p].redone =
                              @ \/ Document(p).id = hist[p].crash_doc]
               /\ UNCHANGED stats
    /\ UNCHANGED <<store, config, force_rebuild, force_rebuild_override, input,
                   old_chunk_ids, idx, target, counters, aux>>

\* variant: the doc row is upserted right after the delete
AfterDeleteUpsert(p) == "upsert_document"

\* where index_document goes once the old chunks are deleted
AfterDelete(p) == IF Chunks(p) # <<>> THEN "embed_documents" ELSE "upsert_document"

GetChunkIds(p) ==
    /\ pc[p] = "get_chunk_ids"
    /\ LET old == get_chunk_ids(kb_documents, Document(p).id)
       IN /\ old_chunk_ids' = Set(old_chunk_ids, p, old)
          /\ IF old # <<>>
             THEN /\ pc' = Set(pc, p, "delete_chunks")
                  /\ idx' = Set(idx, p, 1)
             ELSE /\ pc' = Set(pc, p, AfterDelete(p))
                  /\ idx' = Set(idx, p, 0)
    /\ UNCHANGED <<store, config, force_rebuild, force_rebuild_override, input,
                   stats, target, hist, counters, aux>>

\* one DELETE of delete_chunks(old_chunk_ids)
DeleteChunkStep(p) ==
    /\ pc[p] = "delete_chunks"
    /\ tables' = WithRows(tables, TABLE_NAME(p),
            DeleteChunk(tables[TABLE_NAME(p)].rows, old_chunk_ids[p][idx[p]]))
    /\ hist' = Wrote(p)
    /\ IF idx[p] = Len(old_chunk_ids[p])
       THEN /\ pc' = Set(pc, p, AfterDelete(p))
            /\ idx' = Set(idx, p, 0)
       ELSE /\ idx' = Set(idx, p, idx[p] + 1)
            /\ UNCHANGED pc
    /\ UNCHANGED <<kb_documents, kb_index_meta, config, force_rebuild,
                   force_rebuild_override, input, stats, old_chunk_ids, target,
                   counters, aux>>

\* add_chunks: embed_documents of the batch that starts after idx chunks
EmbedDocuments(p) ==
    /\ pc[p] = "embed_documents"
    /\ pc' = Set(pc, p, "insert_chunk")
    /\ UNCHANGED <<store, config, force_rebuild, force_rebuild_override, input,
                   stats, old_chunk_ids, idx, target, hist, counters, aux>>

\* add_chunks: embed_documents raises; build_from_jsonl records the error
EmbedFails(p) ==
    /\ pc[p] = "embed_documents"
    /\ embed_failures < MaxEmbedFailures
    /\ embed_failures' = embed_failures + 1
    /\ stats' = [stats EXCEPT ![p].errors = Append(@, Document(p).id)]
    /\ pc' = Set(pc, p, "next_record")
    /\ UNCHANGED <<store, config, force_rebuild, force_rebuild_override, input,
                   old_chunk_ids, idx, target, hist, configs, crashes, aux>>

\* add_chunks: one INSERT ... ON CONFLICT of the current batch
InsertChunkStep(p) ==
    /\ pc[p] = "insert_chunk"
    /\ LET chunk == Chunks(p)[idx[p] + 1]
       IN tables' = WithRows(tables, TABLE_NAME(p),
              InsertChunk(tables[TABLE_NAME(p)].rows, chunk,
                          Embedding(config[p].embedding_model, chunk.content)))
    /\ hist' = Wrote(p)
    /\ idx' = Set(idx, p, idx[p] + 1)
    /\ pc' = Set(pc, p,
            IF idx[p] + 1 = Len(Chunks(p)) THEN "upsert_document"
            ELSE IF (idx[p] + 1) % config[p].vector_store_batch_size = 0
                 THEN "embed_documents"
                 ELSE "insert_chunk")
    /\ UNCHANGED <<kb_documents, kb_index_meta, config, force_rebuild,
                   force_rebuild_override, input, stats, old_chunk_ids, target,
                   counters, aux>>

\* index_document: upsert_document and the "indexed" result, added to stats
UpsertDocument(p) ==
    /\ pc[p] = "upsert_document"
    /\ LET document == Document(p)
       IN kb_documents' = upsert_document(kb_documents, document.id, document.path,
              document.title, document.checksum, ChunkIds(Chunks(p)),
              document.version)
    /\ hist' = Wrote(p)
    /\ stats' = [stats EXCEPT ![p].indexed = @ + 1,
                              ![p].chunks_added = @ + Len(Chunks(p)),
                              ![p].chunks_deleted = @ + Len(old_chunk_ids[p])]
    /\ pc' = Set(pc, p, "next_record")
    /\ UNCHANGED <<kb_index_meta, tables, config, force_rebuild,
                   force_rebuild_override, input, old_chunk_ids, idx, target,
                   counters, aux>>


(***************************************************************************)
(* IncrementalIndexer.delete_document, on stores already initialized.      *)
(***************************************************************************)
DeleteDocument(p) ==
    /\ pc[p] \in {"idle", "done", "crashed"}
    /\ \E cfg \in configs, doc_id \in DocIds :
        /\ TableName(cfg) \in DOMAIN tables
        /\ config' = Set(config, p, cfg)
        /\ target' = Set(target, p, doc_id)
        /\ LET chunk_ids == get_chunk_ids(kb_documents, doc_id)
           IN /\ old_chunk_ids' = Set(old_chunk_ids, p, chunk_ids)
              /\ pc' = Set(pc, p, IF chunk_ids # <<>> THEN "del_delete_chunks"
                                  ELSE "del_delete_document")
    /\ input' = Set(input, p, <<>>)
    /\ force_rebuild' = Set(force_rebuild, p, FALSE)
    /\ force_rebuild_override' = Set(force_rebuild_override, p, FALSE)
    /\ stats' = Set(stats, p, EmptyStats)
    /\ idx' = Set(idx, p, 1)
    /\ hist' = Set(hist, p, EmptyHist)
    /\ UNCHANGED <<store, counters, aux>>

\* one DELETE of delete_chunks(chunk_ids)
DelDeleteChunk(p) ==
    /\ pc[p] = "del_delete_chunks"
    /\ tables' = WithRows(tables, TABLE_NAME(p),
            DeleteChunk(tables[TABLE_NAME(p)].rows, old_chunk_ids[p][idx[p]]))
    /\ hist' = Wrote(p)
    /\ IF idx[p] = Len(old_chunk_ids[p])
       THEN /\ pc' = Set(pc, p, "del_delete_document")
            /\ UNCHANGED idx
       ELSE /\ idx' = Set(idx, p, idx[p] + 1)
            /\ UNCHANGED pc
    /\ UNCHANGED <<kb_documents, kb_index_meta, config, force_rebuild,
                   force_rebuild_override, input, stats, old_chunk_ids, target,
                   counters, aux>>

DelDeleteDocument(p) ==
    /\ pc[p] = "del_delete_document"
    /\ kb_documents' = docstore_delete_document(kb_documents, target[p])
    /\ hist' = Wrote(p)
    /\ pc' = Set(pc, p, "done")
    /\ UNCHANGED <<kb_index_meta, tables, config, force_rebuild,
                   force_rebuild_override, input, stats, old_chunk_ids, idx,
                   target, counters, aux>>

(***************************************************************************)
(* The process stops at any point; only the stores survive.                *)
(***************************************************************************)
\* the stages of index_document after delete_chunks and before the doc row
\* is written
BetweenDeleteAndUpsert == {"embed_documents", "insert_chunk", "upsert_document"}

Crash(p) ==
    /\ pc[p] \notin Stopped
    /\ crashes < MaxCrashes
    /\ crashes' = crashes + 1
    /\ hist' = Set(hist, p, [EmptyHist EXCEPT !.crash_doc =
            IF pc[p] \in BetweenDeleteAndUpsert THEN Document(p).id ELSE ""])
    /\ pc' = Set(pc, p, "crashed")
    /\ config' = Set(config, p, ConfigA)
    /\ input' = Set(input, p, <<>>)
    /\ force_rebuild' = Set(force_rebuild, p, FALSE)
    /\ force_rebuild_override' = Set(force_rebuild_override, p, FALSE)
    /\ stats' = Set(stats, p, EmptyStats)
    /\ old_chunk_ids' = Set(old_chunk_ids, p, <<>>)
    /\ idx' = Set(idx, p, 0)
    /\ target' = Set(target, p, "")
    /\ UNCHANGED <<store, configs, embed_failures, aux>>

(***************************************************************************)
(* Specification: one pipeline process, run after run, on stores that      *)
(* start empty.                                                            *)
(***************************************************************************)
InitIdle(first) ==
    /\ pc = [p \in Procs |-> IF p \in first THEN "idle" ELSE "off"]
    /\ config = [p \in Procs |-> ConfigA]
    /\ force_rebuild = [p \in Procs |-> FALSE]
    /\ force_rebuild_override = [p \in Procs |-> FALSE]
    /\ input = [p \in Procs |-> <<>>]
    /\ stats = [p \in Procs |-> EmptyStats]
    /\ old_chunk_ids = [p \in Procs |-> <<>>]
    /\ idx = [p \in Procs |-> 0]
    /\ target = [p \in Procs |-> ""]
    /\ hist = [p \in Procs |-> EmptyHist]
    /\ crashes = 0
    /\ embed_failures = 0
    /\ base = [docs |-> EmptyFn, meta |-> EmptyFn, tables |-> EmptyFn]
    /\ file = [p \in Procs |-> <<>>]
    /\ line_no = [p \in Procs |-> 0]
    /\ stream_pc = [r \in Requests |-> "idle"]
    /\ events = [r \in Requests |-> <<>>]
    /\ lookups = [r \in Requests |-> 0]
    /\ words = [r \in Requests |-> 0]
    /\ outcome = [r \in Requests |-> ""]
    /\ day_key = NoDay
    /\ global_count = 0
    /\ ip_counts = EmptyFn
    /\ lock = ""
    /\ today = 1
    /\ http = [h \in Https |-> NoRequest]
    /\ hits = [d \in Days |-> [ip \in Ips |-> 0]]

\* no search is under way
NoSearch ==
    /\ corpus = EmptyFn
    /\ search_args = EmptyFn
    /\ vector_results = <<>>
    /\ raw_results = <<>>
    /\ retrieved = <<>>
    /\ search_pc = "off"

\* no function is applied on its own
NoCall ==
    /\ call = EmptyFn
    /\ returned = NoValue
    /\ call_pc = "off"

InitLocals(first) ==
    /\ InitIdle(first)
    /\ NoSearch
    /\ NoCall

Init ==
    /\ kb_documents = EmptyFn
    /\ kb_index_meta = EmptyFn
    /\ tables = EmptyFn
    /\ configs = {ConfigA, ConfigB}
    /\ InitLocals({"p1"})

Next ==
    \E p \in Procs :
        \/ BuildIndex(p)
        \/ Initialize(p)
        \/ CheckSignature(p)
        \/ ResetTable(p)
        \/ ClearDocuments(p)
        \/ SetIndexSignature(p)
        \/ NextRecord(p)
        \/ ForceDeleteChunk(p)
        \/ GetChecksum(p)
        \/ GetChunkIds(p)
        \/ DeleteChunkStep(p)
        \/ EmbedDocuments(p)
        \/ EmbedFails(p)
        \/ InsertChunkStep(p)
        \/ UpsertDocument(p)
        \/ DeleteDocument(p)
        \/ DelDeleteChunk(p)
        \/ DelDeleteDocument(p)
        \/ Crash(p)

Spec == Init /\ [][Next]_vars


(***************************************************************************)
(* Specification: the same, without crashes and provider failures, and     *)
(* with a third configuration that names another embedding model (and so   *)
(* another chunk table).                                                   *)
(***************************************************************************)
InitConfigs ==
    /\ kb_documents = EmptyFn
    /\ kb_index_meta = EmptyFn
    /\ tables = EmptyFn
    /\ configs = Configs
    /\ InitLocals({"p1"})

NextNoFault ==
    \E p \in Procs :
        \/ BuildIndex(p)
        \/ Initialize(p)
        \/ CheckSignature(p)
        \/ ResetTable(p)
        \/ ClearDocuments(p)
        \/ SetIndexSignature(p)
        \/ NextRecord(p)
        \/ ForceDeleteChunk(p)
        \/ GetChecksum(p)
        \/ GetChunkIds(p)
        \/ DeleteChunkStep(p)
        \/ EmbedDocuments(p)
        \/ InsertChunkStep(p)
        \/ UpsertDocument(p)
        \/ DeleteDocument(p)
        \/ DelDeleteChunk(p)
        \/ DelDeleteDocument(p)

SpecConfigs == InitConfigs /\ [][NextNoFault]_vars


(***************************************************************************)
(* Specification: two pipeline processes started side by side with the     *)
(* same configuration, p1 on a file of document a and p2 on a file of      *)
(* document b, round after round on the stores the round before left.      *)
(***************************************************************************)
\* the cleaner outputs whose records all carry doc_id d
InputsOf(d) == {inp \in Inputs : \A k \in 1..Len(inp) : inp[k].id = d}

DocIdOf(p) == IF p = "p1" THEN "a" ELSE "b"

StoreNow == [docs |-> kb_documents, meta |-> kb_index_meta, tables |-> tables]

StartIndexers ==
    /\ \A p \in Procs : pc[p] \in {"idle", "done"}
    /\ \E cfg \in configs, fr \in [Procs -> BOOLEAN] :
        \E inp \in {f \in [Procs -> Inputs] : \A p \in Procs : f[p] \in InputsOf(DocIdOf(p))} :
            /\ config' = [p \in Procs |-> cfg]
            /\ input' = inp
            /\ force_rebuild' = fr
    /\ base' = StoreNow
    /\ UNCHANGED <<file, line_no, sse, limiter, queries>>
    /\ force_rebuild_override' = [p \in Procs |-> FALSE]
    /\ stats' = [p \in Procs |-> EmptyStats]
    /\ old_chunk_ids' = [p \in Procs |-> <<>>]
    /\ idx' = [p \in Procs |-> 0]
    /\ target' = [p \in Procs |-> ""]
    /\ hist' = [p \in Procs |-> EmptyHist]
    /\ pc' = [p \in Procs |-> "initialize"]
    /\ UNCHANGED <<store, counters>>

InitDisjoint ==
    /\ kb_documents = EmptyFn
    /\ kb_index_meta = EmptyFn
    /\ tables = EmptyFn
    /\ configs = {ConfigA, ConfigB}
    /\ InitLocals(Procs)

NextDisjoint ==
    \/ StartIndexers
    \/ \E p \in Procs :
        \/ Initialize(p)
        \/ CheckSignature(p)
        \/ ResetTable(p)
        \/ ClearDocuments(p)
        \/ SetIndexSignature(p)
        \/ NextRecord(p)
        \/ ForceDeleteChunk(p)
        \/ GetChecksum(p)
        \/ GetChunkIds(p)
        \/ DeleteChunkStep(p)
        \/ EmbedDocuments(p)
        \/ InsertChunkStep(p)
        \/ UpsertDocument(p)

SpecDisjoint == InitDisjoint /\ [][NextDisjoint]_vars

(***************************************************************************)
(* One pipeline run as a function of the stores: what initialize and       *)
(* build_from_jsonl leave when nothing else touches the stores meanwhile.  *)
(***************************************************************************)
RECURSIVE SeqDeleteChunks(_, _, _)
SeqDeleteChunks(rows, chunk_ids, k) ==
    IF k > Len(chunk_ids) THEN rows
    ELSE SeqDeleteChunks(DeleteChunk(rows, chunk_ids[k]), chunk_ids, k + 1)

RECURSIVE SeqAddChunks(_, _, _, _)
SeqAddChunks(rows, chunks, embedding_model, k) ==
    IF k > Len(chunks) THEN rows
    ELSE SeqAddChunks(
            InsertChunk(rows, chunks[k], Embedding(embedding_model, chunks[k].content)),
            chunks, embedding_model, k + 1)

SeqInitialize(s, cfg) ==
    LET dim == ProbeDim(cfg.embedding_model)
        name == TableName(cfg)
        signature == compute_signature(cfg, dim)
        created == CreateTable(s.tables, name, dim)
        changed == SignatureChanged(get_index_signature(s.meta), signature)
    IN [docs |-> IF changed THEN clear_documents(s.docs) ELSE s.docs,
        meta |-> set_index_signature(s.meta, signature),
        tables |-> IF changed THEN reset_table(created, name, dim) ELSE created,
        override |-> changed]

SeqIndexDocument(s, cfg, document, force) ==
    LET name == TableName(cfg)
        old == get_chunk_ids(s.docs, document.id)
        rows0 == IF force THEN SeqDeleteChunks(s.tables[name].rows, old, 1)
                 ELSE s.tables[name].rows
        chunks == split_document(document, cfg.chunking)
    IN IF IsUnchanged(get_checksum(s.docs, document.id), document)
       THEN [s EXCEPT !.tables = WithRows(s.tables, name, rows0)]
       ELSE [s EXCEPT
               !.tables = WithRows(s.tables, name,
                   SeqAddChunks(SeqDeleteChunks(rows0, old, 1), chunks,
                                cfg.embedding_model, 1)),
               !.docs = upsert_document(s.docs, document.id, document.path,
                   document.title, document.checksum, ChunkIds(chunks),
                   document.version)]

RECURSIVE SeqBuild(_, _, _, _, _)
SeqBuild(s, cfg, inp, force, k) ==
    IF k > Len(inp) THEN s
    ELSE SeqBuild(SeqIndexDocument(s, cfg, FromDict(inp[k]), force),
                  cfg, inp, force, k + 1)

SeqRun(s, cfg, inp, force) ==
    LET i == SeqInitialize(s, cfg)
    IN SeqBuild([docs |-> i.docs, meta |-> i.meta, tables |-> i.tables],
                cfg, inp, force \/ i.override, 1)

\* the run of p on the stores s
SeqRunOf(s, p) == SeqRun(s, config[p], input[p], force_rebuild[p])


(***************************************************************************)
(* Specification: one pipeline process on files whose lines need not be    *)
(* well-formed records, with failures of the chunker, the embedding        *)
(* provider and the stores at any document.                                *)
(***************************************************************************)
\* A line of the file: blank, not JSON, a JSON value that is no object, or
\* a JSON object (its fields as a record).
Line(kind, value) == [kind |-> kind, value |-> value]

Lines ==
    {Line("object", Record("a", ContentSmall)),
     Line("object", Record("a", ContentLarge)),
     Line("object", [id |-> "b", title |-> "b"]),
     Line("object", [title |-> "x"]),
     Line("array", <<>>),
     Line("invalid", <<>>),
     Line("blank", <<>>)}

\* the fields Document.from_dict reads with data[...]
RequiredFields == {"id", "path", "title", "checksum"}

\* doc_dict.get("id", "unknown")
IdOrUnknown(doc_dict) == IF "id" \in DOMAIN doc_dict THEN doc_dict.id ELSE "unknown"

IsRecord(line) == line.kind = "object" /\ RequiredFields \subseteq DOMAIN line.value

Files ==
    {f \in UNION {[1..n -> Lines] : n \in 0..MaxInputLen} :
        \A j, k \in 1..Len(f) :
            (j # k /\ IsRecord(f[j]) /\ IsRecord(f[k])) => f[j].value.id # f[k].value.id}

BuildIndexFile(p) ==
    /\ pc[p] = "idle"
    /\ \E cfg \in configs, f \in Files, fr \in BOOLEAN :
        /\ config' = Set(config, p, cfg)
        /\ file' = Set(file, p, f)
        /\ force_rebuild' = Set(force_rebuild, p, fr)
    /\ line_no' = Set(line_no, p, 0)
    /\ input' = Set(input, p, <<>>)
    /\ force_rebuild_override' = Set(force_rebuild_override, p, FALSE)
    /\ stats' = Set(stats, p, EmptyStats)
    /\ old_chunk_ids' = Set(old_chunk_ids, p, <<>>)
    /\ idx' = Set(idx, p, 0)
    /\ target' = Set(target, p, "")
    /\ hist' = Set(hist, p, EmptyHist)
    /\ pc' = Set(pc, p, "initialize")
    /\ UNCHANGED <<store, counters, base, sse, limiter, queries>>

\* variant: the except clause re-raises
RecordErrorRaises(p, st, doc_id) ==
    /\ pc' = Set(pc, p, "aborted")
    /\ stats' = st

\* build_from_jsonl: except Exception: stats["errors"].append({"doc_id": ...})
RecordError(p, st, doc_id) ==
    /\ stats' = [st EXCEPT ![p].errors = Append(@, doc_id)]
    /\ pc' = Set(pc, p, "next_record")

\* The head of the loop on a file: _load_jsonl yields the next non-blank
\* line through json.loads; then stats["total"] += 1 and Document.from_dict.
NextLine(p) ==
    /\ pc[p] = "next_record"
    /\ IF line_no[p] = Len(file[p])
       THEN /\ pc' = Set(pc, p, "done")
            /\ UNCHANGED <<stats, old_chunk_ids, idx, input, line_no>>
       ELSE LET line == file[p][line_no[p] + 1]
            IN /\ line_no' = Set(line_no, p, line_no[p] + 1)
               /\ CASE line.kind = "blank" ->
                        UNCHANGED <<pc, stats, old_chunk_ids, idx, input>>
                    [] line.kind = "invalid" ->
                        \* json.loads raises inside the generator, outside the try
                        /\ pc' = Set(pc, p, "aborted")
                        /\ UNCHANGED <<stats, old_chunk_ids, idx, input>>
                    [] line.kind = "array" ->
                        \* from_dict raises, and so does doc_dict.get in the handler
                        /\ pc' = Set(pc, p, "aborted")
                        /\ stats' = [stats EXCEPT ![p].total = @ + 1]
                        /\ input' = Set(input, p, Append(input[p], line.value))
                        /\ UNCHANGED <<old_chunk_ids, idx>>
                    [] line.kind = "object" /\ ~IsRecord(line) ->
                        \* from_dict raises KeyError
                        /\ input' = Set(input, p, Append(input[p], line.value))
                        /\ RecordError(p, [stats EXCEPT ![p].total = @ + 1],
                                       IdOrUnknown(line.value))
                        /\ UNCHANGED <<old_chunk_ids, idx>>
                    [] OTHER ->
                        LET document == FromDict(line.value)
                            old == IF EffectiveForceRebuild(p)
                                   THEN get_chunk_ids(kb_documents, document.id)
                                   ELSE <<>>
                        IN /\ input' = Set(input, p, Append(input[p], line.value))
                           /\ stats' = [stats EXCEPT ![p].total = @ + 1]
                           /\ old_chunk_ids' = Set(old_chunk_ids, p, old)
                           /\ idx' = Set(idx, p, 1)
                           /\ pc' = Set(pc, p, IF old # <<>> THEN "force_delete_chunks"
                                               ELSE "get_checksum")
    /\ UNCHANGED <<store, config, force_rebuild, force_rebuild_override,
                   target, hist, counters, base, file, sse, limiter, queries>>

\* the positions of build_from_jsonl inside the try block of one record
InTry ==
    {"force_delete_chunks", "get_checksum", "get_chunk_ids", "delete_chunks",
     "embed_documents", "insert_chunk", "upsert_document"}

\* The chunker, the embedding provider or a store statement raises while
\* the current record is processed.
DocumentFails(p) ==
    /\ pc[p] \in InTry
    /\ RecordError(p, stats, IdOrUnknown(input[p][stats[p].total]))
    /\ UNCHANGED <<store, config, force_rebuild, force_rebuild_override, input,
                   old_chunk_ids, idx, target, hist, counters, aux>>

\* build_index: `finally: builder.close()`; the statistics are returned or
\* the exception leaves the process, whose locals are gone
Close(p) ==
    /\ pc[p] \in {"done", "aborted"}
    /\ pc' = Set(pc, p, "idle")
    /\ config' = Set(config, p, ConfigA)
    /\ file' = Set(file, p, <<>>)
    /\ line_no' = Set(line_no, p, 0)
    /\ input' = Set(input, p, <<>>)
    /\ force_rebuild' = Set(force_rebuild, p, FALSE)
    /\ force_rebuild_override' = Set(force_rebuild_override, p, FALSE)
    /\ stats' = Set(stats, p, EmptyStats)
    /\ old_chunk_ids' = Set(old_chunk_ids, p, <<>>)
    /\ idx' = Set(idx, p, 0)
    /\ UNCHANGED <<store, target, hist, counters, base, sse, limiter, queries>>

InitLines ==
    /\ kb_documents = EmptyFn
    /\ kb_index_meta = EmptyFn
    /\ tables = EmptyFn
    /\ configs = {ConfigA}
    /\ InitLocals({"p1"})

NextLines ==
    \E p \in Procs :
        \/ BuildIndexFile(p)
        \/ Initialize(p)
        \/ CheckSignature(p)
        \/ SetIndexSignature(p)
        \/ NextLine(p)
        \/ ForceDeleteChunk(p)
        \/ GetChecksum(p)
        \/ GetChunkIds(p)
        \/ DeleteChunkStep(p)
        \/ EmbedDocuments(p)
        \/ DocumentFails(p)
        \/ InsertChunkStep(p)
        \/ UpsertDocument(p)
        \/ Close(p)

SpecLines == InitLines /\ [][NextLines]_vars


(***************************************************************************)
(* The /stream endpoint (api/routes/stream.py): event_generator, an async  *)
(* generator driven by the streaming response.  It is suspended either at  *)
(* a yield (the frame is being written) or at an await; an action below is *)
(* the code that runs from one suspension to the next.                     *)
(***************************************************************************)
\* event types of the _stream_* helpers
stream_start == "start"
stream_retrieval_start == "retrieval_start"
stream_retrieval_complete == "retrieval_complete"
stream_generation_start == "generation_start"
stream_generation_delta == "generation_delta"
\* variant: the helper sends the type of the closing event
stream_generation_complete_closing == "complete"
stream_generation_complete == "generation_complete"
stream_complete == "complete"
stream_error == "error"

\* suspended at `yield`, the frame handed to the response
AtYield ==
    {"write_start", "write_retrieval_start", "write_retrieval_complete",
     "write_generation_start", "write_delta", "write_generation_complete",
     "write_complete", "write_error"}

\* suspended at `await`: to_thread(search_by_text), to_thread(get_document),
\* llm.ainvoke, asyncio.sleep
AtAwait == {"await_search", "await_get_document", "await_ainvoke", "await_sleep"}

\* variant: no except clause
IsExceptionNever(exc) == FALSE
\* variant: a bare except clause
IsExceptionAlways(exc) == TRUE
\* `except Exception`: CancelledError and GeneratorExit derive from
\* BaseException only
IsException(exc) == exc \notin {"CancelledError", "GeneratorExit"}

\* yield await _send_sse(event_type, ...): the generator suspends at `at`
Yield(r, event_type, at) ==
    /\ events' = [events EXCEPT ![r] = Append(@, event_type)]
    /\ stream_pc' = [stream_pc EXCEPT ![r] = at]

\* exc is raised inside the try block of event_generator
Raise(r, exc) ==
    IF IsException(exc)
    THEN Yield(r, stream_error, "write_error")
    ELSE /\ stream_pc' = [stream_pc EXCEPT ![r] = "closed"]
         /\ UNCHANGED events

\* the response starts to iterate event_generator
Stream(r) ==
    /\ stream_pc[r] \in {"idle", "closed"}
    /\ UNCHANGED indexing
    /\ events' = [events EXCEPT ![r] = <<stream_start>>]
    /\ stream_pc' = [stream_pc EXCEPT ![r] = "write_start"]
    /\ lookups' = [lookups EXCEPT ![r] = 0]
    /\ words' = [words EXCEPT ![r] = 0]
    /\ outcome' = [outcome EXCEPT ![r] = ""]

AfterStart(r) ==
    /\ stream_pc[r] = "write_start"
    /\ UNCHANGED indexing
    /\ Yield(r, stream_retrieval_start, "write_retrieval_start")
    /\ UNCHANGED <<lookups, words, outcome>>

AfterRetrievalStart(r) ==
    /\ stream_pc[r] = "write_retrieval_start"
    /\ UNCHANGED indexing
    /\ stream_pc' = [stream_pc EXCEPT ![r] = "await_search"]
    /\ UNCHANGED <<events, lookups, words, outcome>>

\* search_by_text returns chunks of n distinct documents
SearchReturns(r) ==
    /\ stream_pc[r] = "await_search"
    /\ UNCHANGED indexing
    /\ \E n \in 0..MaxLookups : lookups' = [lookups EXCEPT ![r] = n]
    /\ Yield(r, stream_retrieval_complete, "write_retrieval_complete")
    /\ UNCHANGED <<words, outcome>>

\* after the doc lookups: the citations, then generation_start
AfterLookups(r, left) ==
    IF left > 0
    THEN /\ stream_pc' = [stream_pc EXCEPT ![r] = "await_get_document"]
         /\ UNCHANGED events
    ELSE Yield(r, stream_generation_start, "write_generation_start")

AfterRetrievalComplete(r) ==
    /\ stream_pc[r] = "write_retrieval_complete"
    /\ UNCHANGED indexing
    /\ AfterLookups(r, lookups[r])
    /\ UNCHANGED <<lookups, words, outcome>>

GetDocumentReturns(r) ==
    /\ stream_pc[r] = "await_get_document"
    /\ UNCHANGED indexing
    /\ lookups' = [lookups EXCEPT ![r] = @ - 1]
    /\ AfterLookups(r, lookups[r] - 1)
    /\ UNCHANGED <<words, outcome>>

\* Config.from_yaml, create_llm, the prompt, then await llm.ainvoke
AfterGenerationStart(r) ==
    /\ stream_pc[r] = "write_generation_start"
    /\ UNCHANGED indexing
    /\ stream_pc' = [stream_pc EXCEPT ![r] = "await_ainvoke"]
    /\ UNCHANGED <<events, lookups, words, outcome>>

\* for word in words: yield delta, sleep; then generation_complete
AfterWords(r, left) ==
    IF left > 0
    THEN Yield(r, stream_generation_delta, "write_delta")
    ELSE Yield(r, stream_generation_complete, "write_generation_complete")

\* llm.ainvoke returns an answer of n words
AinvokeReturns(r) ==
    /\ stream_pc[r] = "await_ainvoke"
    /\ UNCHANGED indexing
    /\ \E n \in 0..MaxWords :
        /\ words' = [words EXCEPT ![r] = n]
        /\ AfterWords(r, n)
    /\ UNCHANGED <<lookups, outcome>>

AfterDelta(r) ==
    /\ stream_pc[r] = "write_delta"
    /\ UNCHANGED indexing
    /\ stream_pc' = [stream_pc EXCEPT ![r] = "await_sleep"]
    /\ UNCHANGED <<events, lookups, words, outcome>>

SleepReturns(r) ==
    /\ stream_pc[r] = "await_sleep"
    /\ UNCHANGED indexing
    /\ words' = [words EXCEPT ![r] = @ - 1]
    /\ AfterWords(r, words[r] - 1)
    /\ UNCHANGED <<lookups, outcome>>

AfterGenerationComplete(r) ==
    /\ stream_pc[r] = "write_generation_complete"
    /\ UNCHANGED indexing
    /\ Yield(r, stream_complete, "write_complete")
    /\ UNCHANGED <<lookups, words, outcome>>

\* the generator returns after its last yield (complete or error)
Return(r) ==
    /\ stream_pc[r] \in {"write_complete", "write_error"}
    /\ UNCHANGED indexing
    /\ stream_pc' = [stream_pc EXCEPT ![r] = "closed"]
    /\ UNCHANGED <<events, lookups, words, outcome>>

\* A step raises: the retrieval or the normalisation of its chunks, a doc
\* lookup, the construction of the LLM (on resuming after generation_start)
\* or the generation.
StepFails(r) ==
    /\ stream_pc[r] \in {"await_search", "await_get_document",
                         "write_generation_start", "await_ainvoke"}
    /\ UNCHANGED indexing
    /\ outcome' = [outcome EXCEPT ![r] = "failed"]
    /\ Raise(r, "RuntimeError")
    /\ UNCHANGED <<lookups, words>>

\* The client disconnects: the task is cancelled at the pending await, or
\* the generator, never resumed from its yield, is closed.
Disconnect(r) ==
    /\ stream_pc[r] \in AtYield \cup AtAwait
    /\ UNCHANGED indexing
    /\ outcome' = [outcome EXCEPT ![r] = "disconnected"]
    /\ Raise(r, IF stream_pc[r] \in AtAwait THEN "CancelledError" ELSE "GeneratorExit")
    /\ UNCHANGED <<lookups, words>>

InitStream ==
    /\ kb_documents = EmptyFn
    /\ kb_index_meta = EmptyFn
    /\ tables = EmptyFn
    /\ configs = {ConfigA}
    /\ InitLocals({})

NextStream ==
    \E r \in Requests :
        \/ Stream(r)
        \/ AfterStart(r)
        \/ AfterRetrievalStart(r)
        \/ SearchReturns(r)
        \/ AfterRetrievalComplete(r)
        \/ GetDocumentReturns(r)
        \/ AfterGenerationStart(r)
        \/ AinvokeReturns(r)
        \/ AfterDelta(r)
        \/ SleepReturns(r)
        \/ AfterGenerationComplete(r)
        \/ Return(r)
        \/ StepFails(r)
        \/ Disconnect(r)

SpecStream == InitStream /\ [][NextStream]_vars


(***************************************************************************)
(* Daily rate limiting (api/ratelimit.py): DailyRateLimitMiddleware with   *)
(* its _InMemoryDailyRateLimiter, requests dispatched side by side on one  *)
(* event loop.                                                             *)
(***************************************************************************)
\* DailyRateLimitConfig.path_prefixes, as the paths of the model
Paths == {"/stream", "/health"}

\* any(path.startswith(prefix) for prefix in path_prefixes)
IsLimitedPath(path) == path = "/stream"

\* variant: `>` for `>=`
ReachedStrictly(count, limit) == count > limit
\* hit: `count >= limit`
Reached(count, limit) == count >= limit

\* self._ip_counts.get(ip, 0)
IpCount(counts, ip) == IF ip \in DOMAIN counts THEN counts[ip] ELSE 0

\* A request enters dispatch.  OPTIONS and paths outside the prefixes go to
\* call_next at once; the others go to hit(ip).
Dispatch(h) ==
    /\ http[h].pc \in {"idle", "done"}
    /\ \E method \in {"POST", "OPTIONS"}, path \in Paths, ip \in Ips :
        http' = [http EXCEPT ![h] =
                    [NoRequest EXCEPT !.method = method, !.path = path, !.ip = ip,
                        !.pc = IF method = "OPTIONS" \/ ~IsLimitedPath(path)
                               THEN "call_next" ELSE "acquire"]]
    /\ UNCHANGED <<day_key, global_count, ip_counts, lock, today, hits>>
    /\ UNCHANGED <<store, locals, counters, base, file, line_no, sse, queries>>

\* hit: async with self._lock
Acquire(h) ==
    /\ http[h].pc = "acquire"
    /\ lock = ""
    /\ lock' = h
    /\ http' = [http EXCEPT ![h].pc = "hit"]
    /\ UNCHANGED <<day_key, global_count, ip_counts, today, hits>>
    /\ UNCHANGED <<store, locals, counters, base, file, line_no, sse, queries>>

\* variant: the counters are kept when the day key changes
HitWithoutRollover(h) ==
    /\ http[h].pc = "hit"
    /\ lock = h
    /\ LET day == today
           rolled == FALSE
           global == IF rolled THEN 0 ELSE global_count
           counts == IF rolled THEN EmptyFn ELSE ip_counts
           ip == http[h].ip
           current_ip == IpCount(counts, ip)
           allowed == /\ ~Reached(global, global_daily_limit)
                      /\ ~Reached(current_ip, per_ip_daily_limit)
       IN /\ day_key' = day
          /\ global_count' = IF allowed THEN global + 1 ELSE global
          /\ ip_counts' = IF allowed
                          THEN [i \in DOMAIN counts \cup {ip} |->
                                    IF i = ip THEN current_ip + 1 ELSE counts[i]]
                          ELSE counts
          /\ hits' = IF allowed THEN [hits EXCEPT ![day][ip] = @ + 1] ELSE hits
          /\ http' = [http EXCEPT ![h].decision = IF allowed THEN "ok" ELSE "denied",
                                  ![h].pc = IF allowed THEN "call_next"
                                            ELSE "respond_429"]
    /\ lock' = ""
    /\ UNCHANGED today
    /\ UNCHANGED <<store, locals, counters, base, file, line_no, sse, queries>>

\* variant: a hit denied for its IP still counts towards the global limit
HitCountingDenied(h) ==
    /\ http[h].pc = "hit"
    /\ lock = h
    /\ LET day == today
           rolled == day # day_key
           global == IF rolled THEN 0 ELSE global_count
           counts == IF rolled THEN EmptyFn ELSE ip_counts
           ip == http[h].ip
           current_ip == IpCount(counts, ip)
           allowed == /\ ~Reached(global, global_daily_limit)
                      /\ ~Reached(current_ip, per_ip_daily_limit)
       IN /\ day_key' = day
          /\ global_count' = IF ~Reached(global, global_daily_limit)
                             THEN global + 1 ELSE global
          /\ ip_counts' = IF allowed
                          THEN [i \in DOMAIN counts \cup {ip} |->
                                    IF i = ip THEN current_ip + 1 ELSE counts[i]]
                          ELSE counts
          /\ hits' = IF allowed THEN [hits EXCEPT ![day][ip] = @ + 1] ELSE hits
          /\ http' = [http EXCEPT ![h].decision = IF allowed THEN "ok" ELSE "denied",
                                  ![h].pc = IF allowed THEN "call_next"
                                            ELSE "respond_429"]
    /\ lock' = ""
    /\ UNCHANGED today
    /\ UNCHANGED <<store, locals, counters, base, file, line_no, sse, queries>>

\* hit: the body under the lock, then the lock is released
Hit(h) ==
    /\ http[h].pc = "hit"
    /\ lock = h
    /\ LET day == today
           rolled == day # day_key
           global == IF rolled THEN 0 ELSE global_count
           counts == IF rolled THEN EmptyFn ELSE ip_counts
           ip == http[h].ip
           current_ip == IpCount(counts, ip)
           allowed == /\ ~Reached(global, global_daily_limit)
                      /\ ~Reached(current_ip, per_ip_daily_limit)
       IN /\ day_key' = day
          /\ global_count' = IF allowed THEN global + 1 ELSE global
          /\ ip_counts' = IF allowed
                          THEN [i \in DOMAIN counts \cup {ip} |->
                                    IF i = ip THEN current_ip + 1 ELSE counts[i]]
                          ELSE counts
          /\ hits' = IF allowed THEN [hits EXCEPT ![day][ip] = @ + 1] ELSE hits
          /\ http' = [http EXCEPT ![h].decision = IF allowed THEN "ok" ELSE "denied",
                                  ![h].pc = IF allowed THEN "call_next"
                                            ELSE "respond_429"]
    /\ lock' = ""
    /\ UNCHANGED today
    /\ UNCHANGED <<store, locals, counters, base, file, line_no, sse, queries>>

\* dispatch: return JSONResponse(status_code=429, ...)
Respond429(h) ==
    /\ http[h].pc = "respond_429"
    /\ http' = [http EXCEPT ![h].status = 429, ![h].pc = "done"]
    /\ UNCHANGED <<day_key, global_count, ip_counts, lock, today, hits>>
    /\ UNCHANGED <<store, locals, counters, base, file, line_no, sse, queries>>

\* dispatch: response = await call_next(request)
CallNext(h) ==
    /\ http[h].pc = "call_next"
    /\ http' = [http EXCEPT ![h].handled = TRUE, ![h].status = 200,
                            ![h].pc = "done"]
    /\ UNCHANGED <<day_key, global_count, ip_counts, lock, today, hits>>
    /\ UNCHANGED <<store, locals, counters, base, file, line_no, sse, queries>>

\* UTC midnight passes
Midnight ==
    /\ today < MaxDays
    /\ today' = today + 1
    /\ UNCHANGED <<day_key, global_count, ip_counts, lock, http, hits>>
    /\ UNCHANGED <<store, locals, counters, base, file, line_no, sse, queries>>

InitRateLimit ==
    /\ kb_documents = EmptyFn
    /\ kb_index_meta = EmptyFn
    /\ tables = EmptyFn
    /\ configs = {ConfigA}
    /\ InitLocals({})

NextRateLimit ==
    \/ Midnight
    \/ \E h \in Https :
        \/ Dispatch(h)
        \/ Acquire(h)
        \/ Hit(h)
        \/ Respond429(h)
        \/ CallNext(h)

SpecRateLimit == InitRateLimit /\ [][NextRateLimit]_vars


(***************************************************************************)
(* Retrieval (rag/retriever.py, storage/hybrid_search.py,                  *)
(* rag/reranker.py, VectorStore.search).  Scores are floats of [0, 1];     *)
(* the model counts them in millionths.  A result dict keeps of the text   *)
(* of its chunk what the code reads off it for the query, a single word    *)
(* that is no stop word: content is the number of times the word occurs    *)
(* in the chunk's content, heading_path whether it occurs in a heading.    *)
(***************************************************************************)
Scale == 1000000

\* the product of two scores that are whole thousandths
Times(a, b) == (a \div 1000) * (b \div 1000)

Min(a, b) == IF a < b THEN a ELSE b

Max(a, b) == IF a > b THEN a ELSE b

score_threshold == (7 * Scale) \div 10

alpha == (7 * Scale) \div 10

rrf_k == 60

exact_match_boost == (15 * Scale) \div 100

heading_boost == (10 * Scale) \div 100

diversity_penalty == (5 * Scale) \div 100

term_freq_weight == (5 * Scale) \div 100

StoredChunks == {"c1", "c2", "c3"}

DocOf(c) == IF c = "c3" THEN "d2" ELSE "d1"

Similarities == {(65 * Scale) \div 100, (72 * Scale) \div 100, (90 * Scale) \div 100}

Occurrences == {0, 1}

\* the rows of the chunk table, each with its cosine similarity to the query
Corpora ==
    [StoredChunks -> [similarity : Similarities, content : Occurrences,
                heading_path : BOOLEAN]]

MaxChunksPerDoc == {1, 3}

\* the score_threshold a retriever is built with: none, or the default
Thresholds == {0, score_threshold}

SearchArgs ==
    [top_k : 1..MaxTopK, use_hybrid : BOOLEAN, use_reranking : BOOLEAN,
     hybrid_searcher : BOOLEAN, reranker : BOOLEAN,
     max_chunks_per_doc : MaxChunksPerDoc, query : {"agent"},
     score_threshold : Thresholds]

\* the orders in which a set can be enumerated
Orderings(S) ==
    {o \in [1..Cardinality(S) -> S] :
        \A i, j \in 1..Cardinality(S) : i # j => o[i] # o[j]}

\* results[:k]
Take(results, k) == SubSeq(results, 1, Min(Len(results), k))

\* variant: without reverse=True, r goes behind the elements whose score is
\* not greater
InsertByScoreAscending(r, results) ==
    LET n == Cardinality({i \in DOMAIN results : results[i].score <= r.score})
    IN SubSeq(results, 1, n) \o <<r>> \o SubSeq(results, n + 1, Len(results))

\* list.sort(key=score, reverse=True) and sorted(..., reverse=True): stable,
\* so r goes behind the elements whose score is not smaller
InsertByScore(r, results) ==
    LET n == Cardinality({i \in DOMAIN results : results[i].score >= r.score})
    IN SubSeq(results, 1, n) \o <<r>> \o SubSeq(results, n + 1, Len(results))

RECURSIVE sorted(_)
sorted(results) ==
    IF results = <<>> THEN <<>>
    ELSE InsertByScore(results[Len(results)],
                       sorted(SubSeq(results, 1, Len(results) - 1)))

\* the dict VectorStore.search builds of a row
ResultOf(co, c) ==
    [chunk_id |-> c, doc_id |-> DocOf(c), content |-> co[c].content,
     heading_path |-> co[c].heading_path, score |-> co[c].similarity]

\* VectorStore.search: the k nearest rows, nearest first; rows at the same
\* distance come in an order the database chooses
vector_search(co, k) ==
    {Take([i \in 1..Cardinality(StoredChunks) |-> ResultOf(co, o[i])], k) :
        o \in {x \in Orderings(StoredChunks) :
                 \A i \in 1..(Cardinality(StoredChunks) - 1) :
                     co[x[i]].similarity >= co[x[i + 1]].similarity}}

\* HybridSearcher._keyword_search: at most k of the rows whose content holds
\* the word, in the order of their rank, each with its keyword score; the
\* empty list when the pool is missing or the statement fails
keyword_search(co, k) ==
    LET matching == {c \in StoredChunks : co[c].content > 0}
    IN {<<>>} \cup
       {Take([i \in 1..Cardinality(matching) |->
                 [ResultOf(co, o[i]) EXCEPT !.score = Scale]], k) :
           o \in Orderings(matching)}

\* {r["chunk_id"]: i + 1 for i, r in enumerate(results)}.get(chunk_id),
\* with 0 for None
RankOf(results, c) ==
    IF \E i \in DOMAIN results : results[i].chunk_id = c
    THEN CHOOSE i \in DOMAIN results : results[i].chunk_id = c
    ELSE 0

\* self_alpha * (1.0 / (rrf_k + rank)) is computed as self_alpha / (rrf_k + rank)
rrf_score(semantic_rank, keyword_rank, self_alpha) ==
    IF semantic_rank # 0 /\ keyword_rank # 0
    THEN self_alpha \div (rrf_k + semantic_rank)
         + (Scale - self_alpha) \div (rrf_k + keyword_rank)
    ELSE IF semantic_rank # 0
    THEN self_alpha \div (rrf_k + semantic_rank)
    ELSE (Scale - self_alpha) \div (rrf_k + keyword_rank)

\* variant: the chunk_ids of the semantic list alone
all_chunk_ids_semantic(semantic_results, keyword_results) ==
    {semantic_results[i].chunk_id : i \in DOMAIN semantic_results}

all_chunk_ids(semantic_results, keyword_results) ==
    {semantic_results[i].chunk_id : i \in DOMAIN semantic_results}
    \cup {keyword_results[i].chunk_id : i \in DOMAIN keyword_results}

\* order: the order in which the set all_chunk_ids is iterated;
\* self_alpha: the semantic weight the searcher was constructed with
reciprocal_rank_fusion(semantic_results, keyword_results, k, order, self_alpha) ==
    LET semantic_rank(c) == RankOf(semantic_results, c)
        keyword_rank(c) == RankOf(keyword_results, c)
        result_map(c) ==
            IF semantic_rank(c) # 0 THEN semantic_results[semantic_rank(c)]
            ELSE keyword_results[keyword_rank(c)]
        final_results ==
            [i \in DOMAIN order |->
                [result_map(order[i]) EXCEPT
                    !.score = rrf_score(semantic_rank(order[i]),
                                        keyword_rank(order[i]), self_alpha)]]
    IN Take(sorted(final_results), k)

\* a query of one word: a word that counts, a stop word, a word too short
Queries == {"agent", "the", "ai"}

\* the stop words of ReRanker._extract_terms (three of them)
stop_words == {"a", "the", "how"}

\* len(t) of a query word
WordLength(t) == IF t = "agent" THEN 5 ELSE IF t = "the" THEN 3 ELSE 2

\* ReRanker._extract_terms: the query's words that are no stop words and longer
\* than two characters
extract_terms(query) ==
    {t \in {query} : t \notin stop_words /\ WordLength(t) > 2}

\* ReRanker._count_exact_matches: content.count(query)
count_exact_matches(result) == result.content

\* ReRanker._calculate_heading_boost
calculate_heading_boost(query_terms, result) ==
    LET matches == IF result.heading_path THEN Cardinality(query_terms) ELSE 0
    IN IF matches = 0 THEN 0
       ELSE Times(heading_boost,
                  Min((matches * Scale) \div Cardinality(query_terms), Scale))

\* ReRanker._calculate_term_frequency: every term is the query word, which
\* the content holds result.content times
calculate_term_frequency(query_terms, result) ==
    LET n == Cardinality(query_terms)
        terms_found == IF result.content > 0 THEN n ELSE 0
        total_occurrences == n * result.content
        occurrence_bonus ==
            Min((total_occurrences * Scale) \div (n * 2), Scale \div 2)
    IN IF query_terms = {} THEN 0
       ELSE IF terms_found = 0 THEN 0
       ELSE ((terms_found * Scale) \div n) \div 2 + occurrence_bonus \div 2

score_adjustment(query_terms, result) ==
    (IF count_exact_matches(result) > 0
     THEN (exact_match_boost * Min(count_exact_matches(result), 3)) \div 3
     ELSE 0)
    + calculate_heading_boost(query_terms, result)
    + Times(calculate_term_frequency(query_terms, result), term_freq_weight)

\* variant: the adjusted score is taken as it is
clamped_not(score) == score

\* max(0.0, min(1.0, score))
clamped(score) == Max(0, Min(Scale, score))

\* ReRanker.rerank: boosts, then the diversity penalty, then the sort
rerank(results, query) ==
    LET query_terms == extract_terms(query)
        doc_occurrences(d) ==
            Cardinality({i \in DOMAIN results : results[i].doc_id = d})
        new_score(r) == clamped(r.score + score_adjustment(query_terms, r))
        penalty(r) == diversity_penalty * (doc_occurrences(r.doc_id) - 1)
        final_score(r) ==
            IF doc_occurrences(r.doc_id) > 1
            THEN Max(0, new_score(r) - penalty(r))
            ELSE new_score(r)
    IN IF results = <<>> THEN <<>>
       ELSE sorted([i \in DOMAIN results |->
                       [results[i] EXCEPT !.score = final_score(results[i])]])

\* KBRetriever.search.filter_score
filter_score(r, use_hybrid) ==
    IF use_hybrid
    THEN IF "semantic_score" \in DOMAIN r THEN r.semantic_score ELSE 0
    ELSE r.score

\* variant: a result is kept while its document has fewer than
\* max_chunks_per_doc results behind it
deduplicate_last(sorted_results, max_chunks_per_doc) ==
    LET behind(i) ==
            Cardinality({j \in (i + 1)..Len(sorted_results) :
                            sorted_results[j].doc_id = sorted_results[i].doc_id})
        RECURSIVE kept(_)
        kept(n) == IF n = 0 THEN <<>>
                   ELSE IF behind(n) < max_chunks_per_doc
                   THEN Append(kept(n - 1), sorted_results[n])
                   ELSE kept(n - 1)
    IN kept(Len(sorted_results))

\* step 5: a result is kept while its document has fewer than
\* max_chunks_per_doc results before it
deduplicate(sorted_results, max_chunks_per_doc) ==
    LET before(i) ==
            Cardinality({j \in 1..(i - 1) :
                            sorted_results[j].doc_id = sorted_results[i].doc_id})
        keep(i) == before(i) < max_chunks_per_doc
        RECURSIVE kept(_)
        kept(n) == IF n = 0 THEN <<>>
                   ELSE IF keep(n) THEN Append(kept(n - 1), sorted_results[n])
                   ELSE kept(n - 1)
    IN kept(Len(sorted_results))

\* the keys of doc_chunks, in the order of their insertion
RECURSIVE doc_order(_)
doc_order(results) ==
    IF results = <<>> THEN <<>>
    ELSE LET docs == doc_order(SubSeq(results, 1, Len(results) - 1))
             d == results[Len(results)].doc_id
         IN IF \E i \in DOMAIN docs : docs[i] = d THEN docs
            ELSE Append(docs, d)

\* step 6: the lists of doc_chunks one after the other
RECURSIVE flatten(_, _)
flatten(docs, results) ==
    IF docs = <<>> THEN <<>>
    ELSE SelectSeq(results, LAMBDA r : r.doc_id = Head(docs))
         \o flatten(Tail(docs), results)

\* variant: the index of enumerate is taken as it is
citation_id_from_zero(i) == i

\* step 8: citation_id=i + 1 for the index i of enumerate
citation_id(i) == i + 1

\* steps 3 to 8 of KBRetriever.search
retrieve(results, use_hybrid, max_chunks_per_doc, threshold) ==
    LET filtered_results ==
            SelectSeq(results,
                      LAMBDA r : filter_score(r, use_hybrid) >= threshold)
        sorted_results == sorted(filtered_results)
        kept == deduplicate(sorted_results, max_chunks_per_doc)
        final_results == sorted(flatten(doc_order(kept), kept))
    IN IF filtered_results = <<>> THEN <<>>
       ELSE [j \in DOMAIN final_results |->
                [chunk_id |-> final_results[j].chunk_id,
                 doc_id |-> final_results[j].doc_id,
                 content |-> final_results[j].content,
                 heading_path |-> final_results[j].heading_path,
                 score |-> filter_score(final_results[j], use_hybrid),
                 citation_id |-> citation_id(j - 1)]]

\* HybridSearcher.search: the lists it can return when its semantic search
\* returned semantic_results
hybrid_search(semantic_results, co, k) ==
    UNION {{reciprocal_rank_fusion(semantic_results, keyword_results, k, order,
                                   alpha) :
               order \in Orderings(all_chunk_ids(semantic_results,
                                                 keyword_results))} :
           keyword_results \in keyword_search(co, k)}

\* KBRetriever.search, from the call to the return
Search ==
    /\ search_pc = "called"
    /\ \E semantic \in vector_search(corpus, search_args.top_k) :
         \E raw \in IF search_args.use_hybrid /\ search_args.hybrid_searcher
                    THEN hybrid_search(semantic, corpus, search_args.top_k)
                    ELSE {semantic} :
            LET reranked == IF search_args.use_reranking /\ search_args.reranker
                            THEN rerank(raw, search_args.query)
                            ELSE raw
            IN /\ vector_results' = semantic
               /\ raw_results' = raw
               /\ retrieved' = retrieve(reranked, search_args.use_hybrid,
                                        search_args.max_chunks_per_doc,
                                        search_args.score_threshold)
    /\ search_pc' = "returned"
    /\ UNCHANGED <<store, locals, counters, base, file, line_no, sse, limiter,
                   corpus, search_args, applied>>

(***************************************************************************)
(* Specification: one call of KBRetriever.search, for every chunk table,   *)
(* construction of the retriever and arguments of the bounds.              *)
(***************************************************************************)
\* c1 and c2 are two chunks of one document and nothing reads a chunk_id
\* but to compare it with another: of two tables that differ by exchanging
\* the rows of c1 and c2 the one with the greater row at c1 is taken
RowKey(row) ==
    4 * row.similarity + 2 * row.content + (IF row.heading_path THEN 1 ELSE 0)

InitRetriever ==
    /\ kb_documents = EmptyFn
    /\ kb_index_meta = EmptyFn
    /\ tables = EmptyFn
    /\ configs = {ConfigA}
    /\ InitIdle({})
    /\ corpus \in Corpora
    /\ RowKey(corpus["c1"]) >= RowKey(corpus["c2"])
    /\ search_args \in SearchArgs
    /\ vector_results = <<>>
    /\ raw_results = <<>>
    /\ retrieved = <<>>
    /\ search_pc = "called"
    /\ NoCall

NextRetriever == Search

SpecRetriever == InitRetriever /\ [][NextRetriever]_vars


(***************************************************************************)
(* Specification: HybridSearcher._reciprocal_rank_fusion applied to two    *)
(* ranked lists of the chunks and a k of the bounds.                       *)
(***************************************************************************)
\* a list of results for the chunks `order`, best first
RankedList(order, first_score) ==
    [i \in DOMAIN order |->
        [chunk_id |-> order[i], doc_id |-> DocOf(order[i]), content |-> 0,
         heading_path |-> FALSE, score |-> first_score - i]]

\* the ranked lists over the stored chunks, each chunk at most once
RankedLists(first_score) ==
    UNION {{RankedList(o, first_score) : o \in Orderings(S)} :
              S \in SUBSET StoredChunks}

Fuse ==
    /\ call_pc = "called"
    /\ call.fn = "reciprocal_rank_fusion"
    /\ \E order \in Orderings(all_chunk_ids(call.semantic_results,
                                            call.keyword_results)) :
         returned' = reciprocal_rank_fusion(call.semantic_results,
                                           call.keyword_results, call.k, order,
                                           call.alpha)
    /\ call_pc' = "returned"
    /\ UNCHANGED <<store, locals, counters, base, file, line_no, sse, limiter,
                   retrieval, call>>

\* the stores and the other components are not in use
InitApplied ==
    /\ kb_documents = EmptyFn
    /\ kb_index_meta = EmptyFn
    /\ tables = EmptyFn
    /\ configs = {ConfigA}
    /\ InitIdle({})
    /\ NoSearch
    /\ returned = NoValue
    /\ call_pc = "called"

\* semantic weights: the default, equal weights, semantic only
Alphas == {alpha, Scale \div 2, Scale}

InitFusion ==
    /\ InitApplied
    /\ call \in [fn : {"reciprocal_rank_fusion"},
                 semantic_results : RankedLists(Scale),
                 keyword_results : RankedLists(Scale \div 2),
                 k : 1..MaxTopK,
                 alpha : Alphas]

NextFusion == Fuse

SpecFusion == InitFusion /\ [][NextFusion]_vars


(***************************************************************************)
(* Specification: ReRanker.rerank applied to a list of results and a       *)
(* query of one word.                                                      *)
(***************************************************************************)
\* scores a list can bring: a negative cosine similarity and two in (0, 1)
RerankScores == {0 - Scale \div 10, (65 * Scale) \div 100, (90 * Scale) \div 100}

\* the lists of at most MaxResults results, each chunk at most once
RerankInputs ==
    UNION {UNION {{[i \in DOMAIN o |->
                      [chunk_id |-> o[i], doc_id |-> DocOf(o[i]),
                       content |-> f[o[i]].content,
                       heading_path |-> f[o[i]].heading_path,
                       score |-> f[o[i]].score]] :
                     f \in [S -> [content : Occurrences, heading_path : BOOLEAN,
                                  score : RerankScores]]} :
                  o \in Orderings(S)} :
           S \in {T \in SUBSET StoredChunks : Cardinality(T) <= MaxResults}}

Rerank ==
    /\ call_pc = "called"
    /\ call.fn = "rerank"
    /\ returned' = rerank(call.results, call.query)
    /\ call_pc' = "returned"
    /\ UNCHANGED <<store, locals, counters, base, file, line_no, sse, limiter,
                   retrieval, call>>

InitRerank ==
    /\ InitApplied
    /\ call \in [fn : {"rerank"}, results : RerankInputs, query : Queries]

NextRerank == Rerank

SpecRerank == InitRerank /\ [][NextRerank]_vars


(***************************************************************************)
(* Specification: split_document applied twice to one document under one   *)
(* chunker configuration.                                                  *)
(***************************************************************************)
\* contents of up to two sections, one of them longer than max_section_chars
ChunkContents ==
    Contents \cup {ContentSmall \o ContentLarge, ContentLarge \o ContentSmall}

Versions == {"latest", "v2"}

ChunkDocuments ==
    {[FromDict(Record(id, c)) EXCEPT !.version = v] :
        id \in DocIds, c \in ChunkContents, v \in Versions}

\* chunks = split_document(document, ...): the first application
Split ==
    /\ call_pc = "called"
    /\ call.fn = "split_document"
    /\ returned' = <<split_document(call.document, call.chunking)>>
    /\ call_pc' = "returned"
    /\ UNCHANGED <<store, locals, counters, base, file, line_no, sse, limiter,
                   retrieval, call>>

\* the second application to the same document
SplitAgain ==
    /\ call_pc = "returned"
    /\ call.fn = "split_document"
    /\ returned' = Append(returned, split_document(call.document, call.chunking))
    /\ call_pc' = "again"
    /\ UNCHANGED <<store, locals, counters, base, file, line_no, sse, limiter,
                   retrieval, call>>

InitChunk ==
    /\ InitApplied
    /\ call \in [fn : {"split_document"},
                 document : ChunkDocuments,
                 chunking : {c.chunking : c \in Configs}]

NextChunk == Split \/ SplitAgain

SpecChunk == InitChunk /\ [][NextChunk]_vars


(***************************************************************************)
(* Specification: VectorStore.add_chunks and delete_chunks called one      *)
(* after the other on one table.  `call` is the last call and `returned`   *)
(* the call before it, each with the rows it found.                        *)
(***************************************************************************)
\* a list given to add_chunks spans two batches at most
MaxChunks == BatchSize + 1

VectorChunkIds == 1..MaxChunks

\* the chunk add_chunks is given under a chunk_id
VectorChunk(k) ==
    [chunk_id |-> <<"id", k>>, doc_id |-> "a", content |-> <<k>>,
     heading_path |-> <<"Guide">>, chunk_index |-> k - 1]

\* a row stored under the same chunk_id by an earlier version of the document
StaleRow(k) ==
    [chunk_id |-> <<"id", k>>, doc_id |-> "a", content |-> <<k, k>>,
     heading_path |-> <<"Intro">>, chunk_index |-> k,
     embedding |-> Embedding("m1", <<k, k>>)]

FreshRow(k) ==
    [chunk_id |-> <<"id", k>>, doc_id |-> "a", content |-> <<k>>,
     heading_path |-> <<"Guide">>, chunk_index |-> k - 1,
     embedding |-> Embedding("m1", <<k>>)]

\* chunk_id is UNIQUE: at most one row for each
PriorRows ==
    {rows \in SUBSET ({StaleRow(k) : k \in VectorChunkIds}
                      \cup {FreshRow(k) : k \in VectorChunkIds}) :
        \A r1, r2 \in rows : r1.chunk_id = r2.chunk_id => r1 = r2}

\* the members of S in increasing order
RECURSIVE Ascending(_)
Ascending(S) ==
    IF S = {} THEN <<>>
    ELSE LET m == CHOOSE x \in S : \A y \in S : x <= y
         IN <<m>> \o Ascending(S \ {m})

\* runs of consecutive chunk_ids (the chunks of a part of the document)
Runs == {a..b : a, b \in VectorChunkIds}

ChunkLists ==
    {[i \in 1..Cardinality(S) |-> VectorChunk(Ascending(S)[i])] : S \in Runs}

ChunkIdLists ==
    {[i \in 1..Cardinality(S) |-> <<"id", Ascending(S)[i]>>] : S \in Runs \ {{}}}

\* range(0, len(chunks), effective_batch_size)
NumBatches(chunks, batch_size) == (Len(chunks) + batch_size - 1) \div batch_size

VectorTable == TableName(ConfigA)
VectorRows == tables[VectorTable].rows

NoOp ==
    [fn |-> "none", chunks |-> <<>>, chunk_ids |-> <<>>, raised |-> FALSE,
     before |-> {}]

\* add_chunks(chunks): every batch is embedded and inserted
AddChunks ==
    /\ call_pc = "ready"
    /\ \E chunks \in ChunkLists :
        /\ tables' = WithRows(tables, VectorTable,
               SeqAddChunks(VectorRows, chunks, ConfigA.embedding_model, 1))
        /\ call' = [fn |-> "add_chunks", chunks |-> chunks, chunk_ids |-> <<>>,
                    raised |-> FALSE, before |-> VectorRows]
    /\ returned' = call
    /\ UNCHANGED <<kb_documents, kb_index_meta, locals, counters, base, file,
                   line_no, sse, limiter, retrieval, call_pc>>

\* add_chunks(chunks): embed_documents raises for the batch after `done`
\* batches, whose rows are committed
AddChunksFails ==
    /\ call_pc = "ready"
    /\ \E chunks \in ChunkLists :
        \E done \in 0..(NumBatches(chunks, BatchSize) - 1) :
            /\ tables' = WithRows(tables, VectorTable,
                   SeqAddChunks(VectorRows, Take(chunks, done * BatchSize),
                                ConfigA.embedding_model, 1))
            /\ call' = [fn |-> "add_chunks", chunks |-> chunks,
                        chunk_ids |-> <<>>, raised |-> TRUE,
                        before |-> VectorRows]
    /\ returned' = call
    /\ UNCHANGED <<kb_documents, kb_index_meta, locals, counters, base, file,
                   line_no, sse, limiter, retrieval, call_pc>>

\* delete_chunks(chunk_ids)
DeleteChunks ==
    /\ call_pc = "ready"
    /\ \E chunk_ids \in ChunkIdLists :
        /\ tables' = WithRows(tables, VectorTable,
               SeqDeleteChunks(VectorRows, chunk_ids, 1))
        /\ call' = [fn |-> "delete_chunks", chunks |-> <<>>,
                    chunk_ids |-> chunk_ids, raised |-> FALSE,
                    before |-> VectorRows]
    /\ returned' = call
    /\ UNCHANGED <<kb_documents, kb_index_meta, locals, counters, base, file,
                   line_no, sse, limiter, retrieval, call_pc>>

InitVector ==
    /\ kb_documents = EmptyFn
    /\ kb_index_meta = EmptyFn
    /\ configs = {ConfigA}
    /\ \E rows \in PriorRows :
          tables = [t \in {VectorTable} |->
                       [dim |-> ProbeDim(ConfigA.embedding_model), rows |-> rows]]
    /\ InitIdle({})
    /\ NoSearch
    /\ call = NoOp
    /\ returned = NoOp
    /\ call_pc = "ready"

NextVector == AddChunks \/ AddChunksFails \/ DeleteChunks

SpecVector == InitVector /\ [][NextVector]_vars


(***************************************************************************)
(* Specification: get_client_ip (api/ratelimit.py) applied to the headers  *)
(* and the socket peer of one request.  A header value is a sequence of    *)
(* tokens: whitespace, a comma, an IP address, or other text.              *)
(***************************************************************************)
MaxHeaderLen == 2       \* tokens in one header value (one more with a list)
MaxIpLen == 64          \* ip[:64]

Addresses == {"ip1", "ip2"}                 \* texts ipaddress.ip_address accepts
HeaderTokens == {" ", ","} \cup Addresses \cup {"bad"}

\* number of characters of a token; "long" is text of 70 characters
TokenChars(t) ==
    IF t \in {" ", ","} THEN 1
    ELSE IF t \in Addresses THEN 7
    ELSE IF t = "bad" THEN 9
    ELSE 70

\* an absent header and an empty one are both the empty sequence (falsy)
HeaderValues ==
    UNION {[1..n -> HeaderTokens] : n \in 0..MaxHeaderLen} \cup {<<"long">>}

\* x-forwarded-for may also be a list: an entry, a comma, the next entry
ForwardedValues ==
    HeaderValues \cup {<<a, ",", b>> : a, b \in Addresses \cup {"bad"}}

header_names == <<"cf-connecting-ip", "x-real-ip", "x-forwarded-for">>

HeaderSets ==
    {h \in [{header_names[i] : i \in 1..3} -> ForwardedValues] :
        /\ h["cf-connecting-ip"] \in HeaderValues
        /\ h["x-real-ip"] \in HeaderValues}

\* request.client.host: the socket peer, or no client
Peers == {<<>>, <<"peer">>}

\* raw.split(",", 1)[0]
SplitFirst(raw) ==
    LET commas == {i \in DOMAIN raw : raw[i] = ","}
    IN IF commas = {} THEN raw
       ELSE SubSeq(raw, 1, (CHOOSE i \in commas : \A j \in commas : i <= j) - 1)

\* raw.strip()
strip(raw) ==
    LET inked == {i \in DOMAIN raw : raw[i] # " "}
    IN IF inked = {} THEN <<>>
       ELSE SubSeq(raw, CHOOSE i \in inked : \A j \in inked : i <= j,
                        CHOOSE i \in inked : \A j \in inked : i >= j)

\* ipaddress.ip_address(ip) does not raise ValueError
ip_address(ip) == Len(ip) = 1 /\ ip[1] \in Addresses

RECURSIVE Chars(_)
Chars(ip) == IF ip = <<>> THEN 0 ELSE TokenChars(Head(ip)) + Chars(Tail(ip))

\* ip[:64]
Truncated(ip) == IF Chars(ip) <= MaxIpLen THEN ip ELSE <<"long[:64]">>

\* the stripped candidate a header gives (empty: the loop continues)
Candidate(headers, header_name) ==
    LET raw == headers[header_name]
    IN IF raw = <<>> THEN <<>>
       ELSE strip(IF header_name = "x-forwarded-for" THEN SplitFirst(raw) ELSE raw)

\* get_client_ip, from the i-th header name on
RECURSIVE get_client_ip_from(_, _, _)
get_client_ip_from(headers, client, i) ==
    IF i > Len(header_names)
    THEN (IF client # <<>> THEN client ELSE <<"unknown">>)
    ELSE LET ip == Candidate(headers, header_names[i])
         IN IF ip = <<>> THEN get_client_ip_from(headers, client, i + 1)
            ELSE IF ip_address(ip) THEN ip
            ELSE Truncated(ip)

get_client_ip(headers, client) == get_client_ip_from(headers, client, 1)

GetClientIp ==
    /\ call_pc = "called"
    /\ call.fn = "get_client_ip"
    /\ returned' = get_client_ip(call.headers, call.client)
    /\ call_pc' = "returned"
    /\ UNCHANGED <<store, locals, counters, base, file, line_no, sse, limiter,
                   retrieval, call>>

InitClientIp ==
    /\ InitApplied
    /\ call \in [fn : {"get_client_ip"}, headers : HeaderSets, client : Peers]

NextClientIp == GetClientIp

SpecClientIp == InitClientIp /\ [][NextClientIp]_vars


(***************************************************************************)
(* Specification: the request-path dependencies get_vector_store and       *)
(* get_doc_store (api/dependencies.py).  They are synchronous generators,  *)
(* which the framework runs in worker threads: the requests interleave at  *)
(* every read and write of the module globals.  `call` holds the globals   *)
(* and what was done to the instances, `call_pc` each request's position,  *)
(* `returned` the instances each request was given.                        *)
(***************************************************************************)
Dependencies == <<"vector_store", "doc_store">>

\* instance 0 is None; a request constructs at most one instance of a kind
Instances == 1..Cardinality(Requests)

NoInstances ==
    [instance |-> 0, constructed |-> 0,
     initialize_calls |-> [i \in Instances |-> 0]]

\* the dependency a request is resolving
DependencyOf(r) == Dependencies[call_pc[r].dep]

At(r, line) == call_pc[r].dep <= Len(Dependencies) /\ call_pc[r].line = line

Goto(r, dep, line) == [call_pc EXCEPT ![r] = [dep |-> dep, line |-> line]]

\* if _vector_store_instance is None: / if _doc_store_instance is None:
CheckInstance(r) ==
    /\ At(r, "check")
    /\ call_pc' = Goto(r, call_pc[r].dep,
                       IF call[DependencyOf(r)].instance = 0 THEN "construct"
                       ELSE "yield")
    /\ UNCHANGED <<store, locals, counters, base, file, line_no, sse, limiter,
                   retrieval, call, returned>>

\* _vector_store_instance = VectorStore(...) / _doc_store_instance = DocStore(...)
ConstructInstance(r) ==
    /\ At(r, "construct")
    /\ LET d == DependencyOf(r)
           n == call[d].constructed + 1
       IN call' = [call EXCEPT ![d].instance = n, ![d].constructed = n]
    /\ call_pc' = Goto(r, call_pc[r].dep, "initialize")
    /\ UNCHANGED <<store, locals, counters, base, file, line_no, sse, limiter,
                   retrieval, returned>>

\* _vector_store_instance.initialize(): on the instance the global names now
InitializeInstance(r) ==
    /\ At(r, "initialize")
    /\ LET d == DependencyOf(r)
       IN call' = [call EXCEPT ![d].initialize_calls[call[d].instance] = @ + 1]
    /\ call_pc' = Goto(r, call_pc[r].dep, "yield")
    /\ UNCHANGED <<store, locals, counters, base, file, line_no, sse, limiter,
                   retrieval, returned>>

\* yield _vector_store_instance; the next dependency of the request follows
YieldInstance(r) ==
    /\ At(r, "yield")
    /\ LET d == DependencyOf(r)
       IN returned' = [returned EXCEPT ![r][d] =
              [instance |-> call[d].instance,
               initialized |-> call[d].initialize_calls[call[d].instance] > 0]]
    /\ call_pc' = Goto(r, call_pc[r].dep + 1, "check")
    /\ UNCHANGED <<store, locals, counters, base, file, line_no, sse, limiter,
                   retrieval, call>>

InitDependencies ==
    /\ kb_documents = EmptyFn
    /\ kb_index_meta = EmptyFn
    /\ tables = EmptyFn
    /\ configs = {ConfigA}
    /\ InitIdle({})
    /\ NoSearch
    /\ call = [d \in {Dependencies[i] : i \in DOMAIN Dependencies} |-> NoInstances]
    /\ returned = [r \in Requests |->
                      [d \in {Dependencies[i] : i \in DOMAIN Dependencies} |->
                          [instance |-> 0, initialized |-> FALSE]]]
    /\ call_pc = [r \in Requests |-> [dep |-> 1, line |-> "check"]]

NextDependencies ==
    \E r \in Requests :
        \/ CheckInstance(r)
        \/ ConstructInstance(r)
        \/ InitializeInstance(r)
        \/ YieldInstance(r)

SpecDependencies == InitDependencies /\ [][NextDependencies]_vars


(***************************************************************************)
(* Specification: AgentRouter._select_agent (agents/router.py) applied to  *)
(* one request.  A question is the set of phrases it contains; confidences *)
(* are in hundredths.                                                      *)
(***************************************************************************)
\* phrases a question of the model may contain: two from each keyword list of
\* ROUTE_RULES, and one each that only the can_handle lists name
Phrases == {"what is", "guide", "latest", "price", "how", "announcement"}

Questions == SUBSET Phrases

Modes == {"auto", "knowledge", "web_search", "hybrid"}

\* ROUTE_RULES, in dict order
ROUTE_RULES ==
    << [agent_type |-> "knowledge", keywords |-> {"what is", "guide"}],
       [agent_type |-> "web_search", keywords |-> {"latest", "price"}] >>

\* KnowledgeAgent.can_handle
knowledge_can_handle(question) ==
    LET matches == Cardinality(question \cap {"how", "what is", "guide"})
    IN IF matches >= 2 THEN 85 ELSE IF matches = 1 THEN 70 ELSE 55

\* WebSearchAgent.can_handle
web_search_can_handle(question) ==
    LET matches == Cardinality(question \cap {"latest", "price", "announcement"})
    IN IF matches >= 2 THEN 90 ELSE IF matches = 1 THEN 75 ELSE 40

\* HybridAgent.can_handle
hybrid_can_handle(question) == 65

can_handle(name, question) ==
    IF name = "knowledge" THEN knowledge_can_handle(question)
    ELSE IF name = "web_search" THEN web_search_can_handle(question)
    ELSE hybrid_can_handle(question)

\* self._agents in registration order (ask.py registers all three)
Registrations ==
    {<<"knowledge", "web_search", "hybrid">>, <<"knowledge", "web_search">>,
     <<"web_search", "hybrid">>, <<"web_search">>}

\* step 1: the first rule one of whose keywords is in the question ("" if none)
RECURSIVE keyword_match(_, _)
keyword_match(question, i) ==
    IF i > Len(ROUTE_RULES) THEN ""
    ELSE IF question \cap ROUTE_RULES[i].keywords # {} THEN ROUTE_RULES[i].agent_type
    ELSE keyword_match(question, i + 1)

\* step 3: the loop over self._agents.items(); best is [agent, score]
RECURSIVE best_agent(_, _, _, _)
best_agent(question, agents, i, best) ==
    IF i > Len(agents) THEN best
    ELSE LET score == can_handle(agents[i], question)
         IN best_agent(question, agents, i + 1,
                IF score > best.score THEN [agent |-> agents[i], score |-> score]
                ELSE best)

\* _select_agent; the request's mode is not among its inputs
select_agent(question, agents, use_llm, llm_choice) ==
    LET matched == keyword_match(question, 1)
        registered == {agents[i] : i \in DOMAIN agents}
        best == best_agent(question, agents, 1, [agent |-> "", score |-> 0])
    IN IF matched # "" THEN matched
       ELSE IF use_llm /\ llm_choice # "" /\ llm_choice \in registered THEN llm_choice
       ELSE IF best.score < 50 /\ "hybrid" \in registered THEN "hybrid"
       ELSE IF best.agent # "" THEN best.agent
       ELSE agents[1]

\* router.route(request.question, context): context carries no mode
SelectAgent ==
    /\ call_pc = "called"
    /\ call.fn = "_select_agent"
    /\ returned' = select_agent(call.question, call.agents, call.use_llm,
                                call.llm_choice)
    /\ call_pc' = "returned"
    /\ UNCHANGED <<store, locals, counters, base, file, line_no, sse, limiter,
                   retrieval, call>>

InitRouter ==
    /\ InitApplied
    /\ call \in [fn : {"_select_agent"}, question : Questions, mode : Modes,
                 agents : Registrations, use_llm : BOOLEAN,
                 llm_choice : {"", "knowledge", "web_search", "hybrid"}]

NextRouter == SelectAgent

SpecRouter == InitRouter /\ [][NextRouter]_vars


(***************************************************************************)
(* Specification: compute_signature applied to two configurations, the     *)
(* first of them twice.                                                    *)
(***************************************************************************)
\* two models whose default table names coincide, and table names set or not
SignatureConfigs ==
    {MkConfig(model, table, msc, cs, co, BatchSize) :
        model \in {"m1", "m/3", "m-3"},
        table \in {"", "kb_chunks_m1", "kb_chunks_m_3"},
        msc \in {4, 5}, cs \in {2, 3}, co \in {0, 1}}

EmbeddingDims == {ProbeDim("m1"), ProbeDim("m2")}

\* signature = compute_signature(self._config, self._vectorstore.EMBEDDING_DIM)
ComputeSignature ==
    /\ call_pc = "called"
    /\ call.fn = "compute_signature"
    /\ returned' = <<compute_signature(call.config, call.embedding_dim)>>
    /\ call_pc' = "returned"
    /\ UNCHANGED <<store, locals, counters, base, file, line_no, sse, limiter,
                   retrieval, call>>

\* the signature of the other configuration
ComputeOtherSignature ==
    /\ call_pc = "returned"
    /\ call.fn = "compute_signature"
    /\ returned' = Append(returned,
            compute_signature(call.other_config, call.other_embedding_dim))
    /\ call_pc' = "other"
    /\ UNCHANGED <<store, locals, counters, base, file, line_no, sse, limiter,
                   retrieval, call>>

\* the signature of the first configuration, on another run
ComputeSignatureAgain ==
    /\ call_pc = "other"
    /\ call.fn = "compute_signature"
    /\ returned' = Append(returned,
            compute_signature(call.config, call.embedding_dim))
    /\ call_pc' = "again"
    /\ UNCHANGED <<store, locals, counters, base, file, line_no, sse, limiter,
                   retrieval, call>>

InitSignature ==
    /\ InitApplied
    /\ call \in [fn : {"compute_signature"},
                 config : SignatureConfigs, embedding_dim : EmbeddingDims,
                 other_config : SignatureConfigs,
                 other_embedding_dim : EmbeddingDims]

NextSignature == ComputeSignature \/ ComputeOtherSignature \/ ComputeSignatureAgain

SpecSignature == InitSignature /\ [][NextSignature]_vars


(***************************************************************************)
(* Properties.                                                             *)
(***************************************************************************)
Range(seq) == {seq[k] : k \in 1..Len(seq)}

\* the chunk_ids of the rows of table t that carry doc_id d
StoredChunkIds(t, d) == {r.chunk_id : r \in {x \in tables[t].rows : x.doc_id = d}}

\* store consistency of one doc row against table t
Consistent(t, d) == StoredChunkIds(t, d) = Range(kb_documents[d].chunk_ids)

\* a build that returned its statistics with an empty errors list
Completed(p) == pc[p] = "done" /\ target[p] = "" /\ stats[p].errors = <<>>

IndexDocumentStages ==
    {"get_checksum", "get_chunk_ids", "delete_chunks", "embed_documents",
     "insert_chunk", "upsert_document"}

\* C1: after build_from_jsonl returns without crash and without per-document
\* error, every doc row's chunk_ids equal the set of chunk_ids stored in the
\* vector store for that doc_id, for any input and either force_rebuild value.
C1_StoreConsistency ==
    \A p \in Procs :
        (Completed(p) /\ crashes = 0 /\ embed_failures = 0)
        => \A d \in DOMAIN kb_documents : Consistent(TABLE_NAME(p), d)

\* C2: while a document is being indexed, a concurrent reader never sees a doc
\* row that lists a chunk_id absent from the vector store.
C2_ReaderNeverSeesMissingChunk ==
    \A p \in Procs :
        (/\ pc[p] \in IndexDocumentStages
         /\ ~EffectiveForceRebuild(p)
         /\ crashes = 0 /\ embed_failures = 0)
        => \A d \in DOMAIN kb_documents :
              Range(kb_documents[d].chunk_ids) \subseteq StoredChunkIds(TABLE_NAME(p), d)

\* C3: inserting a document's new chunks and upserting its doc row are atomic:
\* once index_document is over for a document (also when it ended in an
\* embedding failure of a later batch), new chunks of the document are stored
\* only if its doc row carries the new checksum and chunk_ids.
C3_ChunksAndRowAtomic ==
    \A p \in Procs :
        (pc[p] = "next_record" /\ stats[p].total >= 1 /\ crashes = 0)
        => LET document == Document(p)
               new_ids == Range(ChunkIds(Chunks(p)))
           IN (new_ids \cap StoredChunkIds(TABLE_NAME(p), document.id) # {})
              => /\ get_checksum(kb_documents, document.id) = document.checksum
                 /\ get_chunk_ids(kb_documents, document.id) = ChunkIds(Chunks(p))

\* C4: at the end of a completed run that follows a crash inside
\* index_document and reindexes the interrupted document, every chunk_id in
\* the vector store appears in the chunk_ids of some doc row (no orphans).
C4_NoOrphanChunks ==
    \A p \in Procs :
        (/\ Completed(p)
         /\ hist[p].crash_doc # ""
         /\ hist[p].redone
         /\ embed_failures = 0)
        => \A r \in tables[TABLE_NAME(p)].rows :
              \E d \in DOMAIN kb_documents : r.chunk_id \in Range(kb_documents[d].chunk_ids)

\* C5: after a crash between delete_chunks and upsert_document of a document,
\* the next run that detects the checksum mismatch for it and completes leaves
\* the document's doc row and chunks consistent.
C5_RecoveryRestoresConsistency ==
    \A p \in Procs :
        (/\ Completed(p)
         /\ hist[p].crash_doc # ""
         /\ hist[p].redone
         /\ embed_failures = 0)
        => /\ hist[p].crash_doc \in DOMAIN kb_documents
           /\ Consistent(TABLE_NAME(p), hist[p].crash_doc)

\* C6: a second run on the unchanged cleaner output, with the unchanged
\* configuration and force_rebuild = False, skips every record (indexed = 0,
\* skipped = total, chunks_added = 0) and issues no write against the chunk
\* rows or the doc rows.
C6_IdempotentReindex ==
    \A p \in Procs :
        (Completed(p) /\ hist[p].repeat /\ ~force_rebuild[p])
        => /\ stats[p].total = Len(input[p])
           /\ stats[p].indexed = 0
           /\ stats[p].skipped = stats[p].total
           /\ stats[p].chunks_added = 0
           /\ hist[p].writes = 0

C6_Witness ==
    \E p \in Procs :
        /\ Completed(p) /\ hist[p].repeat /\ ~force_rebuild[p]
        /\ stats[p].skipped = 2
        /\ \E d \in DOMAIN kb_documents : kb_documents[d].chunk_ids # <<>>

\* C7: a second run with force_rebuild = True on the unchanged input reindexes
\* every record and skips none (indexed = total, skipped = 0).
C7_ForceRebuildReindexesAll ==
    \A p \in Procs :
        (Completed(p) /\ hist[p].repeat /\ hist[p].prev_force /\ force_rebuild[p])
        => /\ stats[p].indexed = stats[p].total
           /\ stats[p].skipped = 0

\* the doc row of d (NoValue when absent) and the chunk rows of d, per table
RowOf(d) == IF d \in DOMAIN kb_documents THEN kb_documents[d] ELSE NoValue
ChunkRowsOf(d) == [t \in DOMAIN tables |-> {r \in tables[t].rows : r.doc_id = d}]

PerDocumentStages ==
    IndexDocumentStages \cup {"force_delete_chunks", "del_delete_chunks",
                              "del_delete_document"}

\* the document a process is working on
CurrentDocId(p) == IF target[p] # "" THEN target[p] ELSE Document(p).id

\* C8: a step of the processing of document d (index_document, the forced
\* delete before it, delete_document) changes neither the doc row nor any
\* chunk row of a document with another doc_id.
C8_OtherDocumentsUntouched ==
    [][\A p \in Procs :
          pc[p] \in PerDocumentStages
          => \A e \in DocIds \ {CurrentDocId(p)} :
                /\ RowOf(e)' = RowOf(e)
                /\ ChunkRowsOf(e)' = ChunkRowsOf(e)]_vars

\* document a was reindexed (old chunks deleted, new ones added) in a run that
\* skipped b, whose row and chunk are in the stores
C8_Witness ==
    \E p \in Procs :
        /\ Completed(p)
        /\ stats[p].indexed = 1 /\ stats[p].skipped = 1
        /\ stats[p].chunks_deleted > 0 /\ stats[p].chunks_added > 0
        /\ "b" \in DOMAIN kb_documents
        /\ StoredChunkIds(TABLE_NAME(p), "b") # {}

\* C9: when an indexing run completes, the stored index signature equals
\* compute_signature(current config, current embedding dimension); a first run
\* that finds no stored signature writes the current one.
C9_SignatureGate ==
    \A p \in Procs :
        (pc[p] = "done" /\ target[p] = "")
        => get_index_signature(kb_index_meta)
              = compute_signature(config[p], EMBEDDING_DIM(p))

\* a completed run that found another signature stored
C9_Witness ==
    \E p \in Procs :
        /\ pc[p] = "done" /\ target[p] = ""
        /\ hist[p].old_sig # NoValue
        /\ hist[p].old_sig # compute_signature(config[p], EMBEDDING_DIM(p))
        /\ config[p].embedding_model = "m2"

\* the run of p found a stored signature that differs from the current one
Mismatch(p) ==
    /\ hist[p].old_sig # NoValue
    /\ hist[p].old_sig # compute_signature(config[p], EMBEDDING_DIM(p))

\* what a rebuild of the input from empty stores leaves behind
ExpectedRow(document, chunking) ==
    [path |-> document.path, title |-> document.title, version |-> document.version,
     checksum |-> document.checksum,
     chunk_ids |-> ChunkIds(split_document(document, chunking))]

ExpectedChunkRows(inp, cfg) ==
    UNION {{[chunk_id |-> c.chunk_id, doc_id |-> c.doc_id, content |-> c.content,
             heading_path |-> c.heading_path, chunk_index |-> c.chunk_index,
             embedding |-> Embedding(cfg.embedding_model, c.content)] :
              c \in Range(split_document(FromDict(inp[k]), cfg.chunking))} :
           k \in 1..Len(inp)}

C11_DisjointIndexersSafe ==
    (\A p \in Procs : pc[p] = "done" /\ stats[p].errors = <<>>)
        => \/ StoreNow = SeqRunOf(SeqRunOf(base, "p1"), "p2")
           \/ StoreNow = SeqRunOf(SeqRunOf(base, "p2"), "p1")

\* the non-blank lines among the first n lines of the file of p
Yielded(p, n) == {k \in 1..n : file[p][k].kind # "blank"}

C13_ParseErrorDoesNotAbort ==
    \A p \in Procs : pc[p] = "aborted" => file[p][line_no[p]].kind # "invalid"

\* position of an event type in the order of a successful stream
EventRank(e) ==
    CASE e = "start" -> 1
      [] e = "retrieval_start" -> 2
      [] e = "retrieval_complete" -> 3
      [] e = "generation_start" -> 4
      [] e = "generation_delta" -> 5
      [] e = "generation_complete" -> 6
      [] e = "complete" -> 7
      [] OTHER -> 0

Count(seq, e) == Cardinality({k \in 1..Len(seq) : seq[k] = e})

Last(seq) == seq[Len(seq)]

\* C14: while no step of a request has failed and the client is connected,
\* the events sent so far start with start, each next event is the next one
\* of the order start, retrieval_start, retrieval_complete, generation_start,
\* generation_delta, generation_complete, complete (generation_delta may
\* repeat or be absent), and the stream that has ended ends with complete.
C14_EventOrder ==
    \A r \in Requests :
        (outcome[r] = "" /\ stream_pc[r] # "idle") =>
            /\ events[r][1] = "start"
            /\ \A k \in 1..(Len(events[r]) - 1) :
                LET a == EventRank(events[r][k])
                    b == EventRank(events[r][k + 1])
                IN /\ a > 0 /\ b > 0
                   /\ \/ b = a + 1
                      \/ a = 5 /\ b = 5
                      \/ a = 4 /\ b = 6
            /\ stream_pc[r] = "closed" => Last(events[r]) = "complete"

\* a stream with two deltas ran to its end
C14_Witness ==
    /\ stream_pc["r1"] = "closed"
    /\ outcome["r1"] = ""
    /\ Len(events["r1"]) = 8
    /\ Count(events["r1"], "generation_delta") = 2

\* C15: a stream has sent at least one event; it holds at most one error
\* event and nothing after it; after a failed step the error event is there;
\* and a stream that ended with the client connected ends with complete or
\* with error and holds exactly one of the two.
C15_SingleErrorEvent ==
    \A r \in Requests :
        stream_pc[r] # "idle" =>
            /\ Len(events[r]) >= 1
            /\ Count(events[r], "error") <= 1
            /\ Count(events[r], "error") = 1 => Last(events[r]) = "error"
            /\ outcome[r] = "failed" =>
                 /\ Last(events[r]) = "error"
                 /\ stream_pc[r] \in {"write_error", "closed"}
            /\ (stream_pc[r] = "closed" /\ outcome[r] # "disconnected") =>
                 /\ Last(events[r]) \in {"complete", "error"}
                 /\ Count(events[r], "complete") + Count(events[r], "error") = 1

\* the construction of the LLM or the generation failed: error follows
\* generation_start and closes the stream
C15_Witness ==
    /\ stream_pc["r1"] = "closed"
    /\ outcome["r1"] = "failed"
    /\ events["r1"] = <<"start", "retrieval_start", "retrieval_complete",
                        "generation_start", "error">>

\* C16: the step in which the client disconnects sends no event, and it
\* ends the generator, so no event is sent afterwards.
C16_NoEventAfterDisconnect ==
    /\ [](\A r \in Requests : outcome[r] = "disconnected" => stream_pc[r] = "closed")
    /\ [][\A r \in Requests :
            outcome'[r] = "disconnected" => events'[r] = events[r]]_vars

\* the client went away between two deltas
C16_Witness ==
    /\ outcome["r1"] = "disconnected"
    /\ stream_pc["r1"] = "closed"
    /\ Last(events["r1"]) = "generation_delta"
    /\ words["r1"] = 2

RECURSIVE SumOver(_, _)
SumOver(f, S) ==
    IF S = {} THEN 0
    ELSE LET x == CHOOSE y \in S : TRUE IN f[x] + SumOver(f, S \ {x})

\* C17: on every UTC day the hits allowed for one client IP are at most
\* per_ip_daily_limit and the hits allowed in total at most
\* global_daily_limit; the step that takes a hit allows it exactly when the
\* hits allowed so far on that day, in total and for its IP, are below the
\* limits; a /stream request (other than OPTIONS) whose hit was denied is
\* answered 429 and never reaches the handler, and one whose hit was allowed
\* reaches it.
C17_RateLimitsHold ==
    /\ [](\A d \in Days :
            /\ \A ip \in Ips : hits[d][ip] <= per_ip_daily_limit
            /\ SumOver(hits[d], Ips) <= global_daily_limit)
    /\ [](\A h \in Https :
            http[h].pc = "done" =>
                /\ http[h].decision = "ok" => http[h].handled
                /\ http[h].decision = "denied" =>
                        http[h].status = 429 /\ ~http[h].handled)
    /\ [][\A h \in Https :
            (http[h].pc = "hit" /\ http'[h].pc # "hit") =>
                (http'[h].pc = "call_next"
                    <=> /\ SumOver(hits[today], Ips) < global_daily_limit
                        /\ hits[today][http[h].ip] < per_ip_daily_limit)]_vars

\* on one day ip1 has used up its limit, the total has reached the global
\* limit, and a request of ip2, which has hits left, was answered 429
C17_Witness ==
    /\ hits[today]["ip1"] = per_ip_daily_limit
    /\ SumOver(hits[today], Ips) = global_daily_limit
    /\ \E h \in Https :
        /\ http[h].pc = "done"
        /\ http[h].ip = "ip2"
        /\ http[h].status = 429
        /\ hits[today]["ip2"] < per_ip_daily_limit

\* the cosine similarity of chunk c to the query
Similarity(c) == corpus[c].similarity

\* C18: the threshold is applied to the semantic similarity.  Whatever the
\* flags, a chunk is returned only if its semantic similarity is at least
\* score_threshold, and the returned list is non-empty exactly when some
\* raw result has a semantic similarity of at least score_threshold.
C18_ThresholdOnSemanticScore ==
    search_pc = "returned" =>
        /\ \A i \in DOMAIN retrieved :
              Similarity(retrieved[i].chunk_id) >= search_args.score_threshold
        /\ (retrieved # <<>>)
              <=> \E i \in DOMAIN raw_results :
                     Similarity(raw_results[i].chunk_id)
                        >= search_args.score_threshold

\* C19: a chunk that the hybrid searcher returns and that the semantic
\* search found with similarity s reaches the threshold filter with the
\* value s, which it carries apart from its RRF score.
C19_SemanticScorePreserved ==
    (search_pc = "returned" /\ search_args.use_hybrid
        /\ search_args.hybrid_searcher) =>
        \A i \in DOMAIN raw_results : \A j \in DOMAIN vector_results :
            vector_results[j].chunk_id = raw_results[i].chunk_id =>
                filter_score(raw_results[i], TRUE) = vector_results[j].score

\* C20: the citation_ids of the returned chunks are 1, 2, ..., n in the
\* order of the list.
C20_CitationIdsInOrder ==
    search_pc = "returned" =>
        \A i \in DOMAIN retrieved : retrieved[i].citation_id = i

\* a search with re-ranking has returned two chunks
C20_Witness ==
    /\ search_pc = "returned"
    /\ search_args.use_reranking /\ search_args.reranker
    /\ Len(retrieved) >= 2

\* the results as they reach the threshold filter of the search
Reranked ==
    IF search_args.use_reranking /\ search_args.reranker
    THEN rerank(raw_results, search_args.query)
    ELSE raw_results

\* the results that pass the threshold filter
Passed ==
    SelectSeq(Reranked,
              LAMBDA r : filter_score(r, search_args.use_hybrid)
                            >= search_args.score_threshold)

\* the positions of list `results` that hold a chunk of document d
OfDoc(results, d) == {i \in DOMAIN results : results[i].doc_id = d}

\* C21: the returned list holds at most max_chunks_per_doc chunks of any
\* document, as many of them as passed the threshold if these are fewer, and
\* no chunk of the document that passed the threshold and was left out
\* ranks above a chunk of it that was returned.
C21_PerDocumentDeduplication ==
    search_pc = "returned" =>
        \A d \in {DocOf(c) : c \in StoredChunks} :
            /\ Cardinality(OfDoc(retrieved, d))
                  = Min(search_args.max_chunks_per_doc,
                        Cardinality(OfDoc(Passed, d)))
            /\ \A i \in OfDoc(retrieved, d) :
                  \E j \in OfDoc(Passed, d) :
                     Passed[j].chunk_id = retrieved[i].chunk_id
            /\ \A j \in OfDoc(Passed, d) :
                  (\A i \in OfDoc(retrieved, d) :
                      retrieved[i].chunk_id # Passed[j].chunk_id)
                  => \A i \in OfDoc(retrieved, d) :
                        \E k \in OfDoc(Passed, d) :
                           /\ Passed[k].chunk_id = retrieved[i].chunk_id
                           /\ Passed[k].score >= Passed[j].score

\* two chunks of document d1 passed the threshold with different scores and
\* the search, allowed one chunk per document, returned the better one
C21_Witness ==
    /\ search_pc = "returned"
    /\ search_args.max_chunks_per_doc = 1
    /\ Cardinality(OfDoc(Passed, "d1")) = 2
    /\ \E j, k \in OfDoc(Passed, "d1") : Passed[j].score > Passed[k].score
    /\ Cardinality(OfDoc(retrieved, "d1")) = 1

\* the score by which the search ranks chunk c: its score as it reaches the
\* filter (the RRF score when hybrid, the similarity otherwise, either one
\* as the re-ranker adjusted it)
RankingScore(c) ==
    LET i == CHOOSE i \in DOMAIN Reranked : Reranked[i].chunk_id = c
    IN Reranked[i].score

\* C22: along the returned list the ranking scores of the chunks never
\* increase, and neither do the score values the chunks carry.
C22_DescendingScores ==
    search_pc = "returned" =>
        \A i, j \in DOMAIN retrieved :
            i < j =>
                /\ RankingScore(retrieved[i].chunk_id)
                      >= RankingScore(retrieved[j].chunk_id)
                /\ retrieved[i].score >= retrieved[j].score

\* a search without hybrid has returned two chunks of different scores
C22_Witness ==
    /\ search_pc = "returned"
    /\ ~search_args.use_hybrid
    /\ Len(retrieved) >= 2
    /\ retrieved[1].score > retrieved[2].score

\* a hybrid search has returned two chunks
C22_WitnessHybrid ==
    /\ search_pc = "returned"
    /\ search_args.use_hybrid /\ search_args.hybrid_searcher
    /\ Len(retrieved) >= 2
    /\ RankingScore(retrieved[1].chunk_id) > RankingScore(retrieved[2].chunk_id)

\* the chunk_ids of a list of results
IdsOf(results) == {results[i].chunk_id : i \in DOMAIN results}

\* C23: the fused list holds only chunk_ids of its two input lists, none of
\* them twice, and all of them when the inputs hold at most k chunk_ids.
C23_FusionMembership ==
    (call_pc = "returned" /\ call.fn = "reciprocal_rank_fusion") =>
        LET inputs == IdsOf(call.semantic_results) \cup IdsOf(call.keyword_results)
        IN /\ IdsOf(returned) \subseteq inputs
           /\ \A i, j \in DOMAIN returned :
                 returned[i].chunk_id = returned[j].chunk_id => i = j
           /\ Cardinality(inputs) <= call.k => IdsOf(returned) = inputs

\* two lists that share no chunk and hold k chunks together were fused
C23_Witness ==
    /\ call_pc = "returned"
    /\ call.fn = "reciprocal_rank_fusion"
    /\ IdsOf(call.semantic_results) # {}
    /\ IdsOf(call.keyword_results) # {}
    /\ IdsOf(call.semantic_results) \cap IdsOf(call.keyword_results) = {}
    /\ Len(returned) = call.k

\* C24: every score of the list that ReRanker.rerank returns lies in [0, 1].
C24_RerankScoreBounds ==
    (call_pc = "returned" /\ call.fn = "rerank") =>
        \A i \in DOMAIN returned :
            returned[i].score >= 0 /\ returned[i].score <= Scale

\* a list with a negative score and a score that the boosts lift above 1
\* was re-ranked
C24_Witness ==
    /\ call_pc = "returned"
    /\ call.fn = "rerank"
    /\ \E i \in DOMAIN call.results : call.results[i].score < 0
    /\ \E i \in DOMAIN call.results :
          call.results[i].score
             + score_adjustment(extract_terms(call.query), call.results[i]) > Scale

\* the score that chunk c had in the list given to rerank
ScoreBefore(c) ==
    LET i == CHOOSE i \in DOMAIN call.results : call.results[i].chunk_id = c
    IN call.results[i].score

\* C25: for a query without terms (only stop words or words of at most two
\* characters) rerank returns every item with the score it came with; the
\* scores that come in are taken to lie in [0, 1].
C25_NoTermsNoChange ==
    (call_pc = "returned" /\ call.fn = "rerank"
        /\ extract_terms(call.query) = {}
        /\ \A i \in DOMAIN call.results :
              call.results[i].score >= 0 /\ call.results[i].score <= Scale) =>
        \A i \in DOMAIN returned :
            returned[i].score = ScoreBefore(returned[i].chunk_id)


C27_EmptyContentIndexed ==
    [][\A p \in Procs :
          (/\ pc[p] = "upsert_document"
           /\ pc'[p] = "next_record"
           /\ Document(p).content = ContentEmpty)
          => /\ Chunks(p) = <<>>
             /\ idx[p] = 0
             /\ stats'[p].errors = stats[p].errors
             /\ StoredChunkIds(TABLE_NAME(p), Document(p).id)' = {}
             /\ kb_documents'[Document(p).id].checksum = Document(p).checksum
             /\ kb_documents'[Document(p).id].chunk_ids = <<>>]_vars


\* the last two calls added one chunk and then deleted its chunk_id
AddedThenDeleted ==
    /\ returned.fn = "add_chunks"
    /\ ~returned.raised
    /\ Len(returned.chunks) = 1
    /\ call.fn = "delete_chunks"
    /\ call.chunk_ids = <<returned.chunks[1].chunk_id>>

HeldBefore == \E r \in returned.before : r.chunk_id = call.chunk_ids[1]

\* C28 as stated: adding a chunk and then deleting its chunk_id leaves the
\* row count of before the add, whatever the store held before.
C28_AddThenDeleteAnyPrior ==
    AddedThenDeleted => Cardinality(VectorRows) = Cardinality(returned.before)

\* C28 amended: adding a chunk and then deleting its chunk_id leaves the row
\* count of before the add when the store held no row with that chunk_id, and
\* one row less when it held one (the add updated that row, the delete
\* removed it); the other rows are as before.
C28_AddThenDelete ==
    AddedThenDeleted =>
        /\ VectorRows = {r \in returned.before : r.chunk_id # call.chunk_ids[1]}
        /\ Cardinality(VectorRows) =
              Cardinality(returned.before) - (IF HeldBefore THEN 1 ELSE 0)

\* a chunk was added to and deleted from a store holding other rows only
C28_Witness ==
    /\ AddedThenDeleted
    /\ ~HeldBefore
    /\ returned.before # {}
    /\ Cardinality(VectorRows) = Cardinality(returned.before)


\* the last two calls were add_chunks with the same chunks, and the second
\* one went through
AddedTwice ==
    /\ returned.fn = "add_chunks"
    /\ call.fn = "add_chunks"
    /\ call.chunks = returned.chunks
    /\ ~call.raised

\* C29: add_chunks upserts by chunk_id and is idempotent on retry: after two
\* calls with the same chunks, the first complete or failed part-way through,
\* the store holds exactly one row per chunk_id, with the content and position
\* of the chunk, and is the store a single successful call would have left.
C29_AddChunksIdempotent ==
    AddedTwice =>
        /\ \A k \in DOMAIN call.chunks :
              LET chunk == call.chunks[k]
                  found == {r \in VectorRows : r.chunk_id = chunk.chunk_id}
              IN /\ Cardinality(found) = 1
                 /\ \A r \in found :
                       /\ r.content = chunk.content
                       /\ r.heading_path = chunk.heading_path
                       /\ r.chunk_index = chunk.chunk_index
        /\ VectorRows = SeqAddChunks(returned.before, call.chunks,
                                     ConfigA.embedding_model, 1)

\* the retry of a call that had committed its first batch and failed at the
\* second, on a store holding a stale row of one of the chunks
C29_Witness ==
    /\ AddedTwice
    /\ returned.raised
    /\ Len(call.chunks) > BatchSize
    /\ returned.before # call.before
    /\ \E r \in returned.before : \E k \in DOMAIN call.chunks :
          r.chunk_id = call.chunks[k].chunk_id /\ r.content # call.chunks[k].content


\* the candidates of a request that are valid addresses, by header position
ValidAt(headers) ==
    {i \in 1..Len(header_names) : ip_address(Candidate(headers, header_names[i]))}

\* C30: get_client_ip returns the first valid IP address among
\* cf-connecting-ip, x-real-ip and the first entry of x-forwarded-for, in that
\* order (a header holding an invalid address is passed over), and the socket
\* peer when no header holds a valid address.
C30_FirstValidAddress ==
    (call_pc = "returned" /\ call.fn = "get_client_ip" /\ call.client # <<>>) =>
        LET valid == ValidAt(call.headers)
        IN IF valid = {} THEN returned = call.client
           ELSE returned =
                  Candidate(call.headers,
                            header_names[CHOOSE i \in valid : \A j \in valid : i <= j])


\* C31: under any interleaving of concurrent first requests the shared vector
\* store and doc store are constructed and initialized at most once, and every
\* request is given that one, initialized instance.
C31_InitializedOnce ==
    \A i \in DOMAIN Dependencies :
        LET d == Dependencies[i]
            given == {r \in Requests : returned[r][d].instance # 0}
        IN /\ call[d].constructed <= 1
           /\ \A n \in Instances : call[d].initialize_calls[n] <= 1
           /\ \A r \in given : returned[r][d].initialized
           /\ \A r1, r2 \in given :
                 returned[r1][d].instance = returned[r2][d].instance


\* the routing decision as stated: the mode if it is explicit; under auto the
\* web path for a real-time keyword, the knowledge path for another keyword,
\* and without keyword signal the handler of highest confidence, or the
\* hybrid path if no confidence reaches 0.5
RoutingDecision(question, mode, agents) ==
    LET best == best_agent(question, agents, 1, [agent |-> "", score |-> 0])
    IN IF mode # "auto" THEN mode
       ELSE IF question \cap ROUTE_RULES[2].keywords # {} THEN "web_search"
       ELSE IF question \cap ROUTE_RULES[1].keywords # {} THEN "knowledge"
       ELSE IF best.score < 50 THEN "hybrid"
       ELSE best.agent

\* the keyword router of ask.py: the three handlers, no LLM classification
KeywordRouter ==
    /\ call_pc = "returned"
    /\ call.fn = "_select_agent"
    /\ call.agents = <<"knowledge", "web_search", "hybrid">>
    /\ ~call.use_llm

\* C32: an explicit mode pins the handler; with mode=auto a question with a
\* real-time keyword goes to the web-backed path and any other question with
\* a keyword to the knowledge-base path; without keyword signal the handler
\* with the highest confidence is chosen, the hybrid path if none reaches 0.5.
C32_RoutingDecision ==
    KeywordRouter =>
        returned = RoutingDecision(call.question, call.mode, call.agents)


\* the six inputs of the signature
SignatureInputs(cfg, embedding_dim) ==
    <<cfg.embedding_model, embedding_dim, cfg.chunking.chunk_size,
      cfg.chunking.chunk_overlap, cfg.chunking.max_section_chars,
      TableName(cfg)>>

\* C33: compute_signature is a deterministic function of (embedding_model,
\* embedding_dim, chunk_size, chunk_overlap, max_section_chars, table_name):
\* computing it again gives the same signature, configurations with equal
\* inputs have equal signatures, and configurations that differ in one of the
\* inputs have different signatures.
C33_SignatureOfInputs ==
    (call_pc = "again" /\ call.fn = "compute_signature") =>
        /\ returned[3] = returned[1]
        /\ (returned[1] = returned[2])
           <=> (SignatureInputs(call.config, call.embedding_dim)
                = SignatureInputs(call.other_config, call.other_embedding_dim))

\* two configurations that differ in chunk_size only
C33_Witness ==
    /\ call_pc = "again"
    /\ call.fn = "compute_signature"
    /\ call.config.chunking.chunk_size # call.other_config.chunking.chunk_size
    /\ call.other_config =
          [call.config EXCEPT !.chunking.chunk_size = call.other_config.chunking.chunk_size]
    /\ call.embedding_dim = call.other_embedding_dim
    /\ returned[1] # returned[2]

\* a table name left unset and the same name set: equal inputs
C33_WitnessEqualInputs ==
    /\ call_pc = "again"
    /\ call.fn = "compute_signature"
    /\ call.config # call.other_config
    /\ returned[1] = returned[2]


\* position of a stage in the order delete, add, upsert
StageRank(stage) ==
    IF stage \in {"force_delete_chunks", "get_checksum", "get_chunk_ids"} THEN 0
    ELSE IF stage = "delete_chunks" THEN 1
    ELSE IF stage \in {"embed_documents", "insert_chunk"} THEN 2
    ELSE 3

AllChunkIds(t) == {r.chunk_id : r \in tables[t].rows}

\* C34: within the indexing of one document the store operations come in the
\* order delete old chunks, add new chunks, upsert the doc row: chunk rows are
\* removed only in the delete stages, inserted only in the add stage, and the
\* stages never go back; the step that writes the doc row (the new checksum)
\* finds all new chunks of the document in the vector store and none of the
\* replaced ones.
C34_DeleteAddUpsertOrder ==
    [][\A p \in Procs :
          (pc[p] \in IndexDocumentStages \cup {"force_delete_chunks"}
           /\ pc'[p] # "crashed")
          => LET t == TABLE_NAME(p)
                 new_ids == Range(ChunkIds(Chunks(p)))
             IN /\ pc'[p] \in IndexDocumentStages
                   => StageRank(pc'[p]) >= StageRank(pc[p])
                /\ ~(AllChunkIds(t)' \subseteq AllChunkIds(t))
                   => pc[p] = "insert_chunk"
                /\ ~(AllChunkIds(t) \subseteq AllChunkIds(t)')
                   => pc[p] \in {"force_delete_chunks", "delete_chunks"}
                /\ kb_documents' # kb_documents
                   => /\ pc[p] = "upsert_document"
                      /\ new_ids \subseteq AllChunkIds(t)
                      /\ (Range(old_chunk_ids[p]) \ new_ids) \cap AllChunkIds(t) = {}
                      /\ kb_documents'[Document(p).id].checksum = Document(p).checksum]_vars

\* the doc row of a document is written after its old chunks were deleted and
\* its new chunks, of two batches, were added
C34_Witness ==
    \E p \in Procs :
        /\ pc[p] = "next_record"
        /\ stats[p].indexed >= 1
        /\ old_chunk_ids[p] # <<>>
        /\ Len(Chunks(p)) > BatchSize
        /\ Document(p).id \in DOMAIN kb_documents
        /\ kb_documents[Document(p).id].checksum = Document(p).checksum
        /\ Range(ChunkIds(Chunks(p))) \subseteq AllChunkIds(TABLE_NAME(p))


\* the document of the current record is one index_document answers with
\* 'skipped': its stored checksum is the record's
WillBeSkipped(p) ==
    IsUnchanged(get_checksum(kb_documents, Document(p).id), Document(p))

\* C35: while a run processes a document whose result is 'skipped', neither
\* the doc row nor any chunk row of the document is modified, and the skip
\* counts zero chunks added and zero deleted.
C35_SkippedUntouched ==
    [][\A p \in Procs : \A d \in DocIds :
          (/\ pc[p] \in {"force_delete_chunks", "get_checksum"}
           /\ d = Document(p).id
           /\ WillBeSkipped(p))
          => /\ RowOf(d)' = RowOf(d)
             /\ ChunkRowsOf(d)' = ChunkRowsOf(d)
             /\ pc'[p] # "crashed"
                => /\ stats'[p].chunks_added = stats[p].chunks_added
                   /\ stats'[p].chunks_deleted = stats[p].chunks_deleted]_vars


\* alpha/(K + r_sem) + (1 - alpha)/(K + r_lex), a list in which the chunk is
\* absent (rank 0) contributing nothing
FusedScore(c) ==
    LET r_sem == RankOf(call.semantic_results, c)
        r_lex == RankOf(call.keyword_results, c)
    IN (IF r_sem # 0 THEN call.alpha \div (rrf_k + r_sem) ELSE 0)
       + (IF r_lex # 0 THEN (Scale - call.alpha) \div (rrf_k + r_lex) ELSE 0)

\* chunk ids in ascending order
IdBefore(c1, c2) ==
    \/ c1 = "c1" /\ c2 \in {"c2", "c3"}
    \/ c1 = "c2" /\ c2 = "c3"

\* C36: the fused list gives each chunk_id the score alpha/(K + r_sem) +
\* (1 - alpha)/(K + r_lex) with 1-based ranks and nothing for a list the chunk
\* is absent from, has at most k entries, is sorted by descending fused score
\* and, among equal scores, by ascending chunk_id.
C36_FusionOrder ==
    (call_pc = "returned" /\ call.fn = "reciprocal_rank_fusion") =>
        /\ Len(returned) <= call.k
        /\ \A i \in DOMAIN returned :
              returned[i].score = FusedScore(returned[i].chunk_id)
        /\ \A i, j \in DOMAIN returned :
              i < j => \/ returned[i].score > returned[j].score
                       \/ /\ returned[i].score = returned[j].score
                          /\ IdBefore(returned[i].chunk_id, returned[j].chunk_id)


\* the boosted score of the result at position i of the list given to rerank
BoostedScore(i) ==
    clamped(call.results[i].score
            + score_adjustment(extract_terms(call.query), call.results[i]))

\* the result at position i is the n-th of its document in input order
OccurrenceIndex(i) ==
    Cardinality({j \in 1..i : call.results[j].doc_id = call.results[i].doc_id})

\* the score rerank gave the result at position i of its input
ScoreAfter(i) ==
    LET j == CHOOSE j \in DOMAIN returned :
                 returned[j].chunk_id = call.results[i].chunk_id
    IN returned[j].score

\* C37: the first chunk of each doc_id in input order keeps its boosted score,
\* the n-th chunk of a doc_id (n >= 2) has diversity_penalty * (n - 1)
\* subtracted from its boosted score (not going below 0), and a document with
\* a single chunk is never penalized.
C37_DiversityPenalty ==
    (call_pc = "returned" /\ call.fn = "rerank") =>
        \A i \in DOMAIN call.results :
            ScoreAfter(i) = Max(0, BoostedScore(i)
                                   - diversity_penalty * (OccurrenceIndex(i) - 1))


\* C38: the counters belong to one UTC day.  The first hit after the day key
\* has changed starts from zero before it decides: it is allowed and leaves
\* 1 as the global count and as the only per-IP count; the counters always
\* equal the hits allowed on the day of day_key, so nothing of an earlier day
\* is carried over, and a hit is denied only for hits of its own day.
C38_DayRollover ==
    /\ [][\A h \in Https :
            (http[h].pc = "hit" /\ http'[h].pc # "hit" /\ day_key # today) =>
                /\ day_key' = today
                /\ http'[h].decision = "ok"
                /\ global_count' = 1
                /\ DOMAIN ip_counts' = {http[h].ip}
                /\ ip_counts'[http[h].ip] = 1]_vars
    /\ [](day_key # NoDay =>
            /\ global_count = SumOver(hits[day_key], Ips)
            /\ \A ip \in Ips : IpCount(ip_counts, ip) = hits[day_key][ip])
    /\ [][\A h \in Https :
            (http[h].pc = "hit" /\ http'[h].decision = "denied") =>
                \/ SumOver(hits[today], Ips) >= global_daily_limit
                \/ hits[today][http[h].ip] >= per_ip_daily_limit]_vars

\* ip1 used up its limit on day 1 and was answered 429; on day 2 its first
\* hit, the first of the day, was allowed
C38_Witness ==
    /\ today = 2
    /\ day_key = 2
    /\ hits[1]["ip1"] = per_ip_daily_limit
    /\ hits[2]["ip1"] = 1
    /\ SumOver(hits[2], Ips) = 1
    /\ \E h1, h2 \in Https :
        /\ http[h1].pc = "done" /\ http[h1].ip = "ip1" /\ http[h1].status = 429
        /\ http[h2].pc = "done" /\ http[h2].ip = "ip1"
        /\ http[h2].decision = "ok" /\ http[h2].handled

\* the global count and every per-IP count
Counters == <<global_count, [ip \in Ips |-> IpCount(ip_counts, ip)]>>

\* C39: a hit that is denied leaves the global count and every per-IP count
\* as they were, and a request with method OPTIONS or a path outside the
\* prefixes never enters hit and no step of it changes the limiter's state.
C39_DeniedHitChangesNothing ==
    /\ [][\A h \in Https :
            (http[h].pc = "hit" /\ http'[h].decision = "denied") =>
                /\ Counters' = Counters
                /\ ip_counts' = ip_counts
                /\ day_key' = day_key]_vars
    /\ [](\A h \in Https :
            (http[h].method = "OPTIONS" \/ http[h].path \notin {"", "/stream"})
                => http[h].pc \notin {"acquire", "hit", "respond_429"})
    /\ [][\A h \in Https :
            (/\ http'[h] # http[h]
             /\ http'[h].method = "OPTIONS" \/ http'[h].path # "/stream")
                => <<day_key, global_count, ip_counts>>'
                       = <<day_key, global_count, ip_counts>>]_vars

\* ip1 was denied for its own limit while the global limit was not reached,
\* and an OPTIONS request on /stream went through to the handler
C39_Witness ==
    /\ hits[today]["ip1"] = per_ip_daily_limit
    /\ global_count < global_daily_limit
    /\ global_count = SumOver(hits[today], Ips)
    /\ \E h1, h2 \in Https :
        /\ http[h1].pc = "done" /\ http[h1].ip = "ip1"
        /\ http[h1].decision = "denied" /\ http[h1].status = 429
        /\ http[h2].pc = "done" /\ http[h2].method = "OPTIONS"
        /\ http[h2].path = "/stream" /\ http[h2].handled


\* the run of p is inside the reset that a signature mismatch starts
InReset(p) ==
    \/ pc[p] \in {"reset_table", "clear_documents"}
    \/ pc[p] = "set_index_signature" /\ force_rebuild_override[p]

=============================================================================
